---- MODULE Spec2Model ----
(***************************************************************************)
(* State-machine model of the CVPlus i18n package: the TranslationService  *)
(* cache and language switch, the RTL class transformer, and the backend   *)
(* callable functions with their document store.                           *)
(***************************************************************************)
EXTENDS Integers, Sequences, FiniteSets, TLC

VARIABLES
    \* ---- TranslationService (src/unnamed/part_005) ----
    config,            \* this.config.caching, fixed at construction
    browser,           \* whether document / localStorage / window exist
    language,          \* i18n.language
    storedLanguage,    \* localStorage[STORAGE_KEYS.LANGUAGE]
    translationCache,  \* this.translationCache, in insertion order
    cleanupTimers,     \* number of setInterval cleanup tasks running
    lastChange,        \* outcome of the latest changeLanguage call (<<>> if none)
    firstCall,         \* a translate call being followed (<<>> if none)
    callPair,          \* that call paired with a later identical one (<<>> if none)
    \* ---- RTLService (src/src/rtl/index.tsx) ----
    currentDirection,  \* this.currentDirection
    lastTransform,     \* latest transformCSSClasses call (<<>> if none)
    observers,         \* this.observers
    subscribed,        \* per observer: the latest of subscribe / unsubscribe
    invoked,           \* per observer: what the latest call invoked it with
    lastGenerated,     \* latest call of a class generator (<<>> if none)
    \* ---- bulkTranslation (src/unnamed/part_002) ----
    translationJobs,     \* collection 'translationJobs': job id -> document
    translationResults,  \* collection 'translationResults': job id -> exists
    invocation,          \* the bulkTranslation invocation in progress or last ended
    \* ---- translateBatch (part_001), translateProfessional (part_004) ----
    lastResponse,        \* the latest call of either handler and what it returned
    \* ---- updateTranslations (src/src/backend/functions/updateTranslations.ts) ----
    translationsDb,      \* the (language, namespace) document, activity log, cache marker
    lastUpdate,          \* the latest updateTranslations call (<<>> if none)
    updateCalls,         \* updateTranslations calls in flight: what each has read
    \* ---- getUserLanguage / updateUserLanguage (src/unnamed/part_004) ----
    userDoc,             \* the users/u1 document
    userCall,            \* a getUserLanguage call between its read and its write
    lastSelected,        \* what the latest successful updateUserLanguage stored
    lastUserResponse,    \* the latest handler response (<<>> if none)
    \* ---- TranslationService.getInstance / initialize (src/unnamed/part_005) ----
    instance,            \* which construction TranslationService.instance is
    initialized,         \* this.initialized
    initializing,        \* initialize() calls in flight, per await they are at
    runtimeWired,        \* times the i18n runtime was initialised and wired
    lastGetInstance,     \* the latest getInstance call (<<>> if none)
    \* ---- I18nProvider (src/src/rtl/index.tsx) ----
    provider,            \* the component's state and the call it awaits
    \* ---- I18nLogger (src/unnamed/part_007) ----
    translationMisses,   \* this.translationMisses: miss key -> record
    reportedMisses,      \* the triples reported since the last clear
    \* ---- LanguageSelector (src/src/components/LanguageSelector.tsx) ----
    selector,            \* LanguageSelector state: isOpen, focusedIndex, selection awaited
    selectorProps,       \* its props: disabled and the selectable languages
    selectorEvent,       \* the latest event and the state it found (<<>> if none)
    \* ---- PLURALIZATION_RULES (src/src/constants/index.ts) ----
    pluralCall,          \* the latest call of a pluralization rule (<<>> if none)
    \* ---- RegionalLocalizationService (src/src/services/regional-localization.service.ts) ----
    lastOptimization,    \* the latest optimizeForRegion call and its recommendations (<<>> if none)
    \* ---- getBulkTranslationStatus (src/unnamed/part_002) ----
    statusCall           \* the latest getBulkTranslationStatus call, the owner it read (<<>> if none)

tsVars == <<config, browser, language, storedLanguage, translationCache,
            cleanupTimers, lastChange, firstCall, callPair>>

rtlVars == <<currentDirection, lastTransform, observers, subscribed, invoked,
            lastGenerated>>

bulkVars == <<translationJobs, translationResults, invocation>>

itemVars == <<lastResponse>>
updVars == <<translationsDb, lastUpdate, updateCalls>>
userVars == <<userDoc, userCall, lastSelected, lastUserResponse>>
initVars == <<instance, initialized, initializing, runtimeWired, lastGetInstance>>
provVars == <<provider>>
missVars == <<translationMisses, reportedMisses>>

selVars == <<selector, selectorProps, selectorEvent>>
pluralVars == <<pluralCall>>
regVars == <<lastOptimization>>
statusVars == <<statusCall>>
vars == <<tsVars, rtlVars, bulkVars, itemVars, updVars, userVars, initVars,
          provVars, missVars, selVars, pluralVars, regVars, statusVars>>

\* What each service leaves alone
notTS == <<rtlVars, bulkVars, itemVars, updVars, userVars, initVars, provVars, missVars, selVars, pluralVars, regVars, statusVars>>
notRTL == <<tsVars, bulkVars, itemVars, updVars, userVars, initVars, provVars, missVars, selVars, pluralVars, regVars, statusVars>>
notBulk == <<tsVars, rtlVars, itemVars, updVars, userVars, initVars, provVars, missVars, selVars, pluralVars, regVars, statusVars>>
notItems == <<tsVars, rtlVars, bulkVars, updVars, userVars, initVars, provVars, missVars, selVars, pluralVars, regVars, statusVars>>
notUpd == <<tsVars, rtlVars, bulkVars, itemVars, userVars, initVars, provVars, missVars, selVars, pluralVars, regVars, statusVars>>
notUser == <<tsVars, rtlVars, bulkVars, itemVars, updVars, initVars, provVars, missVars, selVars, pluralVars, regVars, statusVars>>
notInit == <<rtlVars, bulkVars, itemVars, updVars, userVars, provVars, missVars, selVars, pluralVars, regVars, statusVars>>
notProv == <<rtlVars, bulkVars, itemVars, updVars, userVars, missVars, selVars, pluralVars, regVars, statusVars>>
notMiss == <<tsVars, rtlVars, bulkVars, itemVars, updVars, userVars, initVars, provVars, selVars, pluralVars, regVars, statusVars>>
notSel == <<tsVars, rtlVars, bulkVars, itemVars, updVars, userVars, initVars, provVars, missVars, pluralVars, regVars, statusVars>>
notSelTS == <<rtlVars, bulkVars, itemVars, updVars, userVars, initVars, provVars, missVars, pluralVars, regVars, statusVars>>
notPlural == <<tsVars, rtlVars, bulkVars, itemVars, updVars, userVars, initVars, provVars, missVars, selVars, regVars, statusVars>>
notReg == <<tsVars, rtlVars, bulkVars, itemVars, updVars, userVars, initVars, provVars, missVars, selVars, pluralVars, statusVars>>
notStatus == <<tsVars, rtlVars, bulkVars, itemVars, updVars, userVars, initVars, provVars, missVars, selVars, pluralVars, regVars>>

\* ------------------------------------------------------------------------
\* Bounds of the model
\* ------------------------------------------------------------------------
TTLTicks == 1        \* config.caching.ttl, in clock ticks
MaxSizeCfg == 2      \* config.caching.maxSize given at construction

\* ------------------------------------------------------------------------
\* Program constants
\* ------------------------------------------------------------------------
EvictBatch == 100
SUPPORTED_LANGUAGES == {"en", "es", "fr", "de", "pt", "ja", "zh", "ar", "ru", "nl"}
DEFAULT_LANGUAGE == "en"
FALLBACK_LANGUAGE == "en"
DEFAULT_NAMESPACE == "common"

\* ------------------------------------------------------------------------
\* Inputs
\* ------------------------------------------------------------------------
Undefined == ""                        \* a falsy option value
Keys == {"greeting", "missing"}
LngOptions == {Undefined, "ar"}
DefaultValues == {Undefined, "dflt"}
LanguageInputs == {"en", "ar", "xx"}
TranslationOptions == [lng : LngOptions, defaultValue : DefaultValues]

\* The resource store of the translation runtime: "greeting" is translated in
\* English and resolves to the empty string in Arabic, "missing" is absent.
NoResource == "<no-resource>"
getResource(lng, key) ==
    CASE key = "greeting" /\ lng = "en" -> "Hello"
      [] key = "greeting" /\ lng = "ar" -> ""
      [] key \notin Keys -> "text of " \o key     \* any other key is translated
      [] OTHER -> NoResource

Min(a, b) == IF a < b THEN a ELSE b

\* ------------------------------------------------------------------------
\* TranslationService
\* ------------------------------------------------------------------------
getCurrentLanguage == IF language # Undefined THEN language ELSE DEFAULT_LANGUAGE

getCacheKey(key, options) ==
    <<key,
      IF options.lng # Undefined THEN options.lng ELSE getCurrentLanguage,
      DEFAULT_NAMESPACE, "", "", "{}">>

\* i18n.t(key, {defaultValue: options.defaultValue || key, lng: options.lng, ...})
i18nT(key, options) ==
    LET lng == IF options.lng # Undefined THEN options.lng ELSE language
        dflt == IF options.defaultValue # Undefined THEN options.defaultValue ELSE key
    IN  IF getResource(lng, key) # NoResource THEN getResource(lng, key)
        ELSE IF getResource(FALLBACK_LANGUAGE, key) # NoResource
             THEN getResource(FALLBACK_LANGUAGE, key)
             ELSE dflt

cacheHas(cache, cacheKey) == \E i \in 1..Len(cache) : cache[i].ck = cacheKey

cacheGet(cache, cacheKey) ==
    cache[CHOOSE i \in 1..Len(cache) : cache[i].ck = cacheKey].value

\* Map.set: an existing key keeps its place, a new key goes last
mapSet(cache, entry) ==
    IF cacheHas(cache, entry.ck)
    THEN [i \in 1..Len(cache) |-> IF cache[i].ck = entry.ck THEN entry ELSE cache[i]]
    ELSE Append(cache, entry)

cacheTranslationNoStore(cache, cacheKey, value) == cache

cacheTranslationNoEvict(cache, cacheKey, value) ==
    mapSet(cache, [ck |-> cacheKey, value |-> value, age |-> 0])

cacheTranslation(cache, cacheKey, value) ==
    LET kept == IF Len(cache) >= config.maxSize
                THEN SubSeq(cache, Min(EvictBatch, Len(cache)) + 1, Len(cache))
                ELSE cache
    IN  mapSet(kept, [ck |-> cacheKey, value |-> value, age |-> 0])

\* translate(key, options): the returned string, the cache afterwards and how
\* the string was obtained: "cache" (served from the cache), "resolved" (the
\* runtime was consulted) or "threw" (the runtime call raised inside the try).
translate(key, options, throws) ==
    LET cacheKey == getCacheKey(key, options)
    IN  IF config.enabled /\ cacheHas(translationCache, cacheKey)
        THEN LET v == cacheGet(translationCache, cacheKey)
             IN  [result |-> IF v # "" THEN v ELSE key,
                  cache |-> translationCache, how |-> "cache"]
        ELSE IF throws
        THEN [result |-> IF options.defaultValue # Undefined
                         THEN options.defaultValue ELSE key,
              cache |-> translationCache, how |-> "threw"]
        ELSE LET translation == i18nT(key, options)
             IN  [result |-> translation,
                  cache |-> IF config.enabled /\ translation # key
                            THEN cacheTranslation(translationCache, cacheKey, translation)
                            ELSE translationCache,
                  how |-> "resolved"]

\* How a followed call's standing changes when another operation has left the
\* cache as `cache`: "clean" (nothing between), "cleared" (clearCache between,
\* key not cached again), "void" (language changed, its entry evicted, or its
\* key cached by another call).
standing(f, cache, event) ==
    CASE f.status = "void" -> "void"
      [] event = "language" -> "void"
      [] event = "clear" -> "cleared"
      [] f.status = "cleared" -> IF cacheHas(cache, f.ck) THEN "void" ELSE "cleared"
      [] f.cached /\ ~cacheHas(cache, f.ck) -> "void"
      [] ~f.cached /\ cacheHas(cache, f.ck) -> "void"
      [] OTHER -> f.status

\* A followed call whose standing is void is followed no longer
follow(cache, event) ==
    IF Len(firstCall) = 0 \/ standing(firstCall[1], cache, event) = "void"
    THEN <<>>
    ELSE <<[firstCall[1] EXCEPT !.status = standing(firstCall[1], cache, event)]>>

Translate(key, options, throws, watch) ==
    LET r == translate(key, options, throws)
        ck == getCacheKey(key, options)
    IN  /\ watch => Len(firstCall) = 0
        /\ translationCache' = r.cache
        /\ IF watch
           THEN /\ firstCall' = <<[key |-> key, options |-> options, ck |-> ck,
                                   result |-> r.result, how |-> r.how,
                                   cached |-> cacheHas(r.cache, ck),
                                   age |-> 0, status |-> "clean"]>>
                /\ callPair' = <<>>
           ELSE IF Len(firstCall) = 1 /\ firstCall[1].key = key
                   /\ firstCall[1].options = options
           THEN /\ callPair' = <<[first |-> firstCall[1], result |-> r.result,
                                  how |-> r.how]>>
                /\ firstCall' = <<>>
           ELSE /\ firstCall' = follow(r.cache, "translate")
                /\ callPair' = <<>>
        /\ lastChange' = <<>>
        /\ UNCHANGED <<config, browser, language, storedLanguage, cleanupTimers>>
        /\ UNCHANGED notTS

clearCache == <<>>

ClearCache ==
    /\ translationCache' = clearCache
    /\ firstCall' = follow(clearCache, "clear")
    /\ lastChange' = <<>>
    /\ callPair' = <<>>
    /\ UNCHANGED <<config, browser, language, storedLanguage, cleanupTimers>>
    /\ UNCHANGED notTS

\* The error changeLanguage throws for a language outside the supported list
unsupportedError(lang) == [code |-> Undefined, language |-> Undefined]

changeFailedError(lang) == [code |-> "LANGUAGE_CHANGE_FAILED", language |-> lang]

NoError == [code |-> "<none>", language |-> Undefined]

\* changeLanguage(language): the state afterwards and the error thrown.
\* outcome: "ok", "runtimeFails" (i18n.changeLanguage rejects) or "storageFails"
\* (localStorage.setItem throws); without a DOM the first document access throws.
changeLanguage(lang, outcome) ==
    IF lang \notin SUPPORTED_LANGUAGES
    THEN [language |-> language, stored |-> storedLanguage,
          cache |-> translationCache, error |-> unsupportedError(lang)]
    ELSE IF outcome = "runtimeFails"
    THEN [language |-> language, stored |-> storedLanguage,
          cache |-> translationCache, error |-> changeFailedError(lang)]
    ELSE IF ~browser \/ outcome = "storageFails"
    THEN [language |-> lang, stored |-> storedLanguage,
          cache |-> translationCache, error |-> changeFailedError(lang)]
    ELSE [language |-> lang, stored |-> lang,
          cache |-> clearCache, error |-> NoError]

\* What a changeLanguage call does to the service
changeLanguageStep(lang, outcome) ==
    LET r == changeLanguage(lang, outcome)
    IN  /\ language' = r.language
        /\ storedLanguage' = r.stored
        /\ translationCache' = r.cache
        /\ lastChange' = <<[arg |-> lang, error |-> r.error,
                            mutated |-> \/ r.language # language
                                        \/ r.stored # storedLanguage
                                        \/ r.cache # translationCache]>>
        /\ firstCall' = IF lang \in SUPPORTED_LANGUAGES /\ outcome # "runtimeFails"
                        THEN follow(r.cache, "language")
                        ELSE follow(r.cache, "translate")
        /\ callPair' = <<>>
        /\ UNCHANGED <<config, browser, cleanupTimers>>

ChangeLanguage(lang, outcome) ==
    /\ changeLanguageStep(lang, outcome)
    /\ UNCHANGED notTS

older(a) == Min(a + 1, TTLTicks + 1)

\* The clock advances by one tick (ages saturate just past the TTL)
Tick ==
    /\ translationCache' = [i \in 1..Len(translationCache) |->
            [translationCache[i] EXCEPT !.age = older(@)]]
    /\ firstCall' = IF Len(firstCall) = 0 \/ firstCall[1].age = TTLTicks
                    THEN <<>>      \* a call is followed until the TTL has elapsed
                    ELSE <<[firstCall[1] EXCEPT !.age = @ + 1]>>
    /\ lastChange' = <<>>
    /\ callPair' = <<>>
    /\ UNCHANGED <<config, browser, language, storedLanguage, cleanupTimers>>
    /\ UNCHANGED notTS

RECURSIVE dropExpired(_)
dropExpired(cache) ==
    IF Len(cache) = 0 THEN <<>>
    ELSE IF Head(cache).age > TTLTicks
         THEN dropExpired(Tail(cache))
         ELSE <<Head(cache)>> \o dropExpired(Tail(cache))

\* The interval callback installed by setupCacheCleanup
CacheCleanup ==
    /\ cleanupTimers > 0
    /\ translationCache' = dropExpired(translationCache)
    /\ firstCall' = follow(dropExpired(translationCache), "cleanup")
    /\ lastChange' = <<>>
    /\ callPair' = <<>>
    /\ UNCHANGED <<config, browser, language, storedLanguage, cleanupTimers>>
    /\ UNCHANGED notTS

\* ------------------------------------------------------------------------
\* bulkTranslation: a persisted job processed in batches
\* ------------------------------------------------------------------------
\* The translation provider behind translationService.translate is outside the
\* handler: each (item, language) call either returns or throws.
\* One invocation is followed at a time.  Job ids: one id that callers supply,
\* and the id the handler generated last; a generated id that no caller ever
\* names is written by its own invocation only, so the documents of earlier
\* generated ids are not kept once a new invocation starts.
Users == {"u1", "u2"}
SuppliedJobId == "job1"
GeneratedJobId == "bulk_uid_now"          \* `bulk_${auth.uid}_${Date.now()}`
JobIds == {SuppliedJobId, GeneratedJobId}
DefaultBatchSize == 50
InlineResultsMax == 100

\* Shapes of request.data: number of (well-formed) content items, number of
\* target languages, options.batchSize
ContentShapes ==
    { [items |-> 0, targetLanguages |-> 1, batchSize |-> DefaultBatchSize],
      [items |-> 1, targetLanguages |-> 0, batchSize |-> DefaultBatchSize],
      [items |-> 1, targetLanguages |-> 1, batchSize |-> DefaultBatchSize],
      [items |-> 2, targetLanguages |-> 1, batchSize |-> DefaultBatchSize],
      [items |-> 2, targetLanguages |-> 1, batchSize |-> 1],
      [items |-> 1, targetLanguages |-> 2, batchSize |-> DefaultBatchSize],
      [items |-> InlineResultsMax + 1, targetLanguages |-> 1,
       batchSize |-> DefaultBatchSize] }
SmallContent == [items |-> 1, targetLanguages |-> 1, batchSize |-> DefaultBatchSize]
BulkRequests ==
    { [uid |-> u, jobId |-> j, content |-> c] :
        u \in {"u1"}, j \in {Undefined, SuppliedJobId}, c \in ContentShapes }
    \cup { [uid |-> u, jobId |-> j, content |-> SmallContent] :
        u \in {Undefined, "u2"}, j \in {Undefined, SuppliedJobId} }

\* The (item, language) calls whose translation may throw
FailableCalls == {1, 2} \X {1, 2}

\* The checks of lines 87-125
validate(req) ==
    IF req.uid = Undefined THEN "unauthenticated"
    ELSE IF req.content.targetLanguages = 0 THEN "invalid-argument"
    ELSE IF req.content.items = 0 THEN "invalid-argument"
    ELSE "ok"

currentJobId(req) == IF req.jobId # Undefined THEN req.jobId ELSE GeneratedJobId

\* The document written by jobDocRef.set
newJobDocument(req) ==
    [userId |-> req.uid, status |-> "processing",
     completedItems |-> 0, failedItems |-> 0,
     results |-> FALSE, error |-> FALSE]

finalStatusAlwaysCompleted(totalCompleted, totalFailed) == "completed"

finalStatus(totalCompleted, totalFailed) ==
    IF totalFailed = 0 THEN "completed"
    ELSE IF totalCompleted > 0 THEN "completed" ELSE "failed"

\* The catch block (lines 311-352): the job named in the request is marked
\* failed; update() of a missing document throws, which is logged only.
\* markOk: whether the store accepts that write.
catchBlock(jobs, req, markOk) ==
    IF req.jobId = Undefined THEN [jobs |-> jobs, mark |-> "none"]
    ELSE IF markOk /\ Len(jobs[req.jobId]) = 1
    THEN [jobs |-> [jobs EXCEPT ![req.jobId] =
                       <<[@[1] EXCEPT !.status = "failed", !.error = TRUE]>>],
          mark |-> "written"]
    ELSE [jobs |-> jobs, mark |-> "threw"]

idleInvocation ==
    [pc |-> "idle", request |-> [uid |-> Undefined, jobId |-> Undefined,
                                 content |-> [items |-> 0, targetLanguages |-> 1,
                                              batchSize |-> DefaultBatchSize]],
     jobId |-> Undefined, i |-> 0,
     next |-> 0, totalCompleted |-> 0, totalFailed |-> 0,
     failedCalls |-> {}, docCreated |-> FALSE, error |-> Undefined,
     mark |-> "none"]

\* A collection as the next invocation finds it: nothing under the id the
\* handler is about to generate
fresh(collection, nothing) == [collection EXCEPT ![GeneratedJobId] = nothing]

\* The invocation ends by throwing `code` out of the catch block
thrown(inv, code, markOk) ==
    LET c == catchBlock(translationJobs, inv.request, markOk)
    IN  /\ translationJobs' = IF inv.pc = "idle" THEN fresh(c.jobs, <<>>) ELSE c.jobs
        /\ invocation' = [inv EXCEPT !.pc = "done", !.error = code, !.mark = c.mark]

\* bulkTranslation up to the first write: validation, then jobDocRef.set
BulkTranslation(req, setOk, markOk) ==
    LET started == [idleInvocation EXCEPT !.request = req]
    IN  /\ invocation.pc \in {"idle", "done"}
        /\ IF validate(req) # "ok"
           THEN thrown(started, validate(req), markOk)
           ELSE IF ~setOk
           THEN thrown([started EXCEPT !.jobId = currentJobId(req)],
                       "internal", markOk)
           ELSE /\ translationJobs' =
                     [fresh(translationJobs, <<>>) EXCEPT ![currentJobId(req)] =
                                                 <<newJobDocument(req)>>]
                /\ invocation' = [started EXCEPT !.pc = "split",
                                                 !.jobId = currentJobId(req),
                                                 !.docCreated = TRUE]
        /\ translationResults' = fresh(translationResults, FALSE)
        /\ UNCHANGED notBulk

\* One pass of the loop that splits the content into batches (lines 173-177):
\* `for (let i = 0; i < content.length; i += batchSize) batches.push(...)`.
\* Only the loop variable is followed; the batches are taken from the
\* content as they are processed.
SplitBatches ==
    LET req == invocation.request
    IN  /\ invocation.pc = "split"
        /\ invocation' =
              IF invocation.i < req.content.items
              THEN [invocation EXCEPT !.i = @ + req.content.batchSize]
              ELSE [invocation EXCEPT !.pc = "batches"]
        /\ UNCHANGED <<translationJobs, translationResults>>
        /\ UNCHANGED notBulk

\* One batch (lines 179-259): every item of the batch is translated to every
\* target language, then the progress is written
ProcessBatch(failing, updateOk, markOk) ==
    LET req == invocation.request
        last == Min(invocation.next + req.content.batchSize, req.content.items)
        calls == ((invocation.next + 1)..last) \X (1..req.content.targetLanguages)
        completed == invocation.totalCompleted + Cardinality(calls \ failing)
        failed == invocation.totalFailed + Cardinality(failing)
        inv == [invocation EXCEPT !.next = last,
                                  !.totalCompleted = completed,
                                  !.totalFailed = failed,
                                  !.failedCalls = @ \cup failing]
    IN  /\ invocation.pc = "batches"
        /\ failing \subseteq calls
        /\ IF updateOk
           THEN /\ translationJobs' =
                     [translationJobs EXCEPT ![invocation.jobId] =
                         <<[@[1] EXCEPT !.completedItems = completed,
                                        !.failedItems = failed]>>]
                /\ invocation' = [inv EXCEPT !.pc = IF last = req.content.items
                                                    THEN "finalize" ELSE "batches"]
           ELSE thrown(inv, "internal", markOk)
        /\ UNCHANGED translationResults
        /\ UNCHANGED notBulk

\* The final update (lines 261-278)
Finalize(updateOk, markOk) ==
    LET req == invocation.request
        inline == req.content.items <= InlineResultsMax
    IN  /\ invocation.pc = "finalize"
        /\ IF updateOk
           THEN /\ translationJobs' =
                     [translationJobs EXCEPT ![invocation.jobId] =
                         <<[@[1] EXCEPT
                              !.status = finalStatus(invocation.totalCompleted,
                                                     invocation.totalFailed),
                              !.results = inline]>>]
                /\ invocation' = [invocation EXCEPT !.pc = IF inline THEN "done"
                                                           ELSE "overflow"]
           ELSE thrown(invocation, "internal", markOk)
        /\ UNCHANGED translationResults
        /\ UNCHANGED notBulk

\* The separate results document of a large job (lines 280-288)
StoreResults(setOk, markOk) ==
    /\ invocation.pc = "overflow"
    /\ IF setOk
       THEN /\ translationResults' =
                 [translationResults EXCEPT ![invocation.jobId] = TRUE]
            /\ invocation' = [invocation EXCEPT !.pc = "done"]
            /\ UNCHANGED translationJobs
       ELSE /\ thrown(invocation, "internal", markOk)
            /\ UNCHANGED translationResults
    /\ UNCHANGED notBulk

bulkIdle ==
    /\ translationJobs = [id \in JobIds |-> <<>>]
    /\ translationResults = [id \in JobIds |-> FALSE]
    /\ invocation = idleInvocation

\* getBulkTranslationStatus: callers, with or without the admin token claim
StatusRequests ==
    [uid : Users \cup {Undefined}, admin : BOOLEAN,
     jobId : {SuppliedJobId}, includeResults : BOOLEAN]

\* Lines 398-409: the results returned for a job document that was read
resultsOf(req, jobData, resultsDoc) ==
    /\ req.includeResults
    /\ jobData.status = "completed"
    /\ (jobData.results \/ resultsDoc)

\* getBulkTranslationStatus(request)
getBulkTranslationStatus(req, jobDoc, resultsDoc) ==
    IF req.uid = Undefined
    THEN [thrown |-> "unauthenticated", status |-> Undefined, results |-> FALSE]
    ELSE IF Len(jobDoc) = 0
    THEN [thrown |-> "not-found", status |-> Undefined, results |-> FALSE]
    ELSE IF jobDoc[1].userId # req.uid /\ ~req.admin
    THEN [thrown |-> "permission-denied", status |-> Undefined, results |-> FALSE]
    ELSE [thrown |-> Undefined, status |-> jobDoc[1].status,
          results |-> resultsOf(req, jobDoc[1], resultsDoc)]

GetBulkTranslationStatus(req) ==
    /\ statusCall' =
          <<[request |-> req,
             owner |-> IF Len(translationJobs[req.jobId]) = 0 THEN Undefined
                       ELSE translationJobs[req.jobId][1].userId,
             response |-> getBulkTranslationStatus(
                              req, translationJobs[req.jobId],
                              translationResults[req.jobId])]>>
    /\ UNCHANGED notStatus

statusIdle == statusCall = <<>>

\* ------------------------------------------------------------------------
\* translateBatch and translateProfessional: per-item translation handlers
\* ------------------------------------------------------------------------
\* A request carries the caller and a list of (well-formed) items, named by
\* their ids; the provider call of each item either returns or throws.
ItemIds == {"a", "b", "c"}
ItemLists == {<<>>} \cup { <<x>> : x \in ItemIds }
                    \cup { <<x, y>> : x, y \in ItemIds }
ItemRequests == [uid : {Undefined, "u1"}, items : ItemLists]

textOf(id) == "text " \o id               \* item.content / item.text
translated(text) == "translated " \o text \* what the provider returns
messageOf(id) == "cannot translate " \o id   \* error.message of a failing call
Absent == "<absent>"                      \* a field the response does not have

\* translateBatch (part_001 205-330): the response, or the error thrown
translateBatch(req, failing) ==
    IF req.uid = Undefined THEN [thrown |-> "unauthenticated", results |-> <<>>]
    ELSE IF Len(req.items) = 0 THEN [thrown |-> "invalid-argument", results |-> <<>>]
    ELSE [thrown |-> Undefined,
          results |-> [k \in 1..Len(req.items) |->
              IF k \in failing
              THEN [id |-> req.items[k], text |-> "", success |-> "false",
                    error |-> messageOf(req.items[k])]
              ELSE [id |-> req.items[k], text |-> translated(textOf(req.items[k])),
                    success |-> "true", error |-> Absent]]]

\* translateProfessional (part_004 46-310): the response, or the error thrown;
\* the response keeps id, originalText, translatedText, type, confidence and
\* alternatives of each processed item
translateProfessional(req, failing) ==
    IF req.uid = Undefined THEN [thrown |-> "unauthenticated", results |-> <<>>]
    ELSE IF Len(req.items) = 0 THEN [thrown |-> "invalid-argument", results |-> <<>>]
    ELSE [thrown |-> Undefined,
          results |-> [k \in 1..Len(req.items) |->
              IF k \in failing
              THEN [id |-> req.items[k], text |-> textOf(req.items[k]),
                    success |-> Absent, error |-> Absent]
              ELSE [id |-> req.items[k], text |-> translated(textOf(req.items[k])),
                    success |-> Absent, error |-> Absent]]]

TranslateBatch(req, failing) ==
    /\ failing \subseteq 1..Len(req.items)
    /\ lastResponse' = <<[handler |-> "translateBatch", request |-> req,
                          failing |-> failing,
                          response |-> translateBatch(req, failing),
                          unfailing |-> translateBatch(req, {})]>>
    /\ UNCHANGED notItems

TranslateProfessional(req, failing) ==
    /\ failing \subseteq 1..Len(req.items)
    /\ lastResponse' = <<[handler |-> "translateProfessional", request |-> req,
                          failing |-> failing,
                          response |-> translateProfessional(req, failing),
                          unfailing |-> translateProfessional(req, {})]>>
    /\ UNCHANGED notItems

itemsIdle == lastResponse = <<>>

\* ------------------------------------------------------------------------
\* updateTranslations: the stored translations of one (language, namespace)
\* ------------------------------------------------------------------------
\* Stored and provided translations are maps from the keys below to a string,
\* or to Absent for a key that is not in the map.
TranslationKeys == {"a.b", "c", "bad key"}
ProvidedValues == {"x", " x ", "y", "  "}
MaxVersion == 3                           \* metadata.version the store may reach

\* /^[a-zA-Z0-9._-]+$/ and 1 <= length <= 200, on the keys above
isValidTranslationKey(key) == key \in {"a.b", "c"}

\* String.prototype.trim, on the values above
trim(value) ==
    CASE value = " x " -> "x"
      [] value = "  " -> ""
      [] OTHER -> value

noTranslations == [k \in TranslationKeys |-> Absent]

UpdateRequests ==
    { [caller |-> c, language |-> l, merge |-> m, translations |-> t] :
        c \in {"admin"}, l \in {"en"}, m \in BOOLEAN,
        t \in { [noTranslations EXCEPT !["a.b"] = v] : v \in ProvidedValues }
              \cup { [noTranslations EXCEPT !["c"] = "y"],
                     [noTranslations EXCEPT !["a.b"] = "y", !["c"] = " x "],
                     [noTranslations EXCEPT !["a.b"] = "x", !["bad key"] = "y"] } }
    \cup { [caller |-> c, language |-> l, merge |-> TRUE,
            translations |-> [noTranslations EXCEPT !["a.b"] = "x"]] :
             c \in {Undefined, "user", "translator"}, l \in {"en", "xx"} }
    \cup { [caller |-> "admin", language |-> "en", merge |-> TRUE,
            translations |-> noTranslations] }

\* The checks of lines 52-84
validateUpdate(req) ==
    IF req.caller = Undefined THEN "unauthenticated"
    ELSE IF req.caller \notin {"admin", "translator"} THEN "permission-denied"
    ELSE IF req.language \notin SUPPORTED_LANGUAGES THEN "invalid-argument"
    ELSE IF \A k \in TranslationKeys : req.translations[k] = Absent
    THEN "invalid-argument"
    ELSE "ok"

\* Lines 112-156: the translations to store, given those read from the store
finalTranslations(current, req) ==
    [k \in TranslationKeys |->
        LET value == req.translations[k]
            kept == IF req.merge THEN current[k] ELSE Absent
        IN  IF value = Absent THEN kept                      \* not provided
            ELSE IF ~isValidTranslationKey(k) THEN kept      \* errors.push
            ELSE IF trim(value) = "" THEN kept               \* errors.push
            ELSE IF current[k] = Absent THEN trim(value)     \* newKeys
            ELSE IF current[k] # value THEN trim(value)      \* updatedKeys
            ELSE kept]                                       \* skippedKeys

\* updateTranslations(request); setOk, addOk, markerOk: whether the store
\* accepts the document write, the activity-log entry and the cache marker
UpdateTranslations(req, setOk, addOk, markerOk) ==
    LET current == translationsDb.translations
        rejected == validateUpdate(req) # "ok"
        verdict == IF rejected THEN validateUpdate(req)
                   ELSE IF ~setOk \/ ~addOk THEN "internal" ELSE Undefined
    IN  /\ translationsDb.version < MaxVersion
        /\ translationsDb' =
             IF rejected \/ ~setOk THEN translationsDb
             ELSE [translations |-> finalTranslations(current, req),
                   version |-> translationsDb.version + 1,
                   activity |-> translationsDb.activity + (IF addOk THEN 1 ELSE 0),
                   marker |-> translationsDb.marker \/ (addOk /\ markerOk)]
        /\ lastUpdate' = <<[request |-> req, thrown |-> verdict]>>
        /\ UNCHANGED updateCalls
        /\ UNCHANGED notUpd

\* Two calls that may overlap, each with a request that passes the checks
Calls == {"call1", "call2"}

OverlappingRequests ==
    { [caller |-> "admin", language |-> "en", merge |-> TRUE,
       translations |-> [noTranslations EXCEPT !["a.b"] = "x"]],
      [caller |-> "admin", language |-> "en", merge |-> TRUE,
       translations |-> [noTranslations EXCEPT !["c"] = "y"]],
      [caller |-> "admin", language |-> "en", merge |-> FALSE,
       translations |-> [noTranslations EXCEPT !["a.b"] = "y"]],
      [caller |-> "translator", language |-> "en", merge |-> TRUE,
       translations |-> [noTranslations EXCEPT !["a.b"] = "y", !["c"] = " x "]] }

notCalled == [stage |-> "idle", request |-> <<>>, currentDoc |-> <<>>]

\* Lines 52-106 of a call: the checks pass and the document is read
UpdateTranslationsRead(c, req) ==
    /\ updateCalls[c].stage = "idle"
    /\ validateUpdate(req) = "ok"
    /\ updateCalls' =
          [updateCalls EXCEPT ![c] =
              [stage |-> "read", request |-> <<req>>,
               currentDoc |-> <<[translations |-> translationsDb.translations,
                                 version |-> translationsDb.version]>>]]
    /\ UNCHANGED <<translationsDb, lastUpdate>>
    /\ UNCHANGED notUpd

\* Lines 108-199 of the call: the document is replaced by what the call
\* computed from its own read; the store accepts every write
UpdateTranslationsWrite(c) ==
    /\ updateCalls[c].stage = "read"
    /\ LET req == updateCalls[c].request[1]
           currentDoc == updateCalls[c].currentDoc[1]
       IN  translationsDb' =
              [translations |-> finalTranslations(currentDoc.translations, req),
               version |-> currentDoc.version + 1,
               activity |-> translationsDb.activity + 1,
               marker |-> TRUE]
    /\ updateCalls' = [updateCalls EXCEPT ![c].stage = "done"]
    /\ UNCHANGED lastUpdate
    /\ UNCHANGED notUpd

updIdle ==
    /\ translationsDb = [translations |-> noTranslations, version |-> 0,
                         activity |-> 0, marker |-> FALSE]
    /\ lastUpdate = <<>>
    /\ updateCalls = [c \in Calls |-> notCalled]

\* ------------------------------------------------------------------------
\* getUserLanguage / updateUserLanguage: the language preference of user u1
\* ------------------------------------------------------------------------
WrittenPrefFields == {"cvLanguage", "interfaceLanguage", "communicationLanguage"}
ReadPrefFields == {"cv", "interface", "communication"}
PrefFields == WrittenPrefFields \cup ReadPrefFields

noPrefs == [f \in PrefFields |-> Absent]
noUserDoc == [exists |-> FALSE, language |-> Absent, languageSource |-> Absent,
              languagePreferences |-> <<>>]

\* The preferences argument: <<>> when omitted, else the fields it carries
PreferenceInputs ==
    { <<>>,
      <<[cvLanguage |-> "fr", interfaceLanguage |-> Absent,
         communicationLanguage |-> Absent]>>,
      <<[cvLanguage |-> "en", interfaceLanguage |-> "fr",
         communicationLanguage |-> "en"]>>,
      <<[cvLanguage |-> "he", interfaceLanguage |-> Absent,
         communicationLanguage |-> Absent]>> }

UpdateLanguageRequests ==
    [uid : {"u1"}, language : {"en", "fr"}, preferences : PreferenceInputs]
    \cup [uid : {"u1"}, language : {Undefined, "he"}, preferences : {<<>>}]
    \cup [uid : {Undefined}, language : {"en"}, preferences : {<<>>}]

\* accept-language headers, as the list of their tags <<primary, region>>;
\* <<>> is a request without the header
AcceptLanguageHeaders ==
    { <<>>, << <<"FR", "CA">> >>, << <<"he", "IL">>, <<"de", "">> >>,
      << <<"he", "">> >> }

GetLanguageRequests ==
    { [uid |-> u[1], admin |-> u[2], userId |-> t, header |-> h] :
        u \in { <<Undefined, FALSE>>, <<"u1", FALSE>>, <<"u2", FALSE>>,
                <<"adm", TRUE>> },
        t \in {"u1"}, h \in AcceptLanguageHeaders }
    \cup { [uid |-> "u1", admin |-> FALSE, userId |-> Undefined, header |-> h] :
             h \in AcceptLanguageHeaders }

\* String.prototype.toLowerCase, on the tags above
toLowerCase(str) == IF str = "FR" THEN "fr" ELSE str

\* detectLanguageFromHeader (551-564): the first tag whose primary subtag is
\* a supported language, or <<>> for null
RECURSIVE detectFrom(_, _)
detectFrom(header, i) ==
    IF i > Len(header) THEN <<>>
    ELSE IF toLowerCase(header[i][1]) \in SUPPORTED_LANGUAGES
    THEN <<toLowerCase(header[i][1])>>
    ELSE detectFrom(header, i + 1)

detectLanguageFromHeader(acceptLanguage) == detectFrom(acceptLanguage, 1)

\* userData.languagePreferences.<field> || language
orLanguage(prefs, field, lang) ==
    IF prefs[field] # Absent THEN prefs[field] ELSE lang

\* Lines 372-396: what getUserLanguage makes of the document it read
readLanguage(doc) ==
    LET set == doc.exists /\ doc.language \in SUPPORTED_LANGUAGES
        lang == IF set THEN doc.language ELSE "en"
    IN  [language |-> lang,
         isDefault |-> ~set,
         preferences |->
            IF doc.exists /\ Len(doc.languagePreferences) = 1
            THEN <<[cvLanguage |->
                       orLanguage(doc.languagePreferences[1], "cv", lang),
                    interfaceLanguage |->
                       orLanguage(doc.languagePreferences[1], "interface", lang),
                    communicationLanguage |->
                       orLanguage(doc.languagePreferences[1], "communication", lang)]>>
            ELSE <<>>]

\* set(data, {merge: true}) of the nested languagePreferences map
mergePrefs(stored, given) ==
    LET base == IF Len(stored) = 1 THEN stored[1] ELSE noPrefs
    IN  <<[f \in PrefFields |->
             IF f \in WrittenPrefFields /\ given[f] # Absent THEN given[f]
             ELSE base[f]]>>

\* The checks of updateUserLanguage (471-496)
validateUserUpdate(req) ==
    IF req.uid = Undefined THEN "unauthenticated"
    ELSE IF req.language \notin SUPPORTED_LANGUAGES THEN "invalid-argument"
    ELSE IF /\ Len(req.preferences) = 1
            /\ \E f \in WrittenPrefFields :
                  /\ req.preferences[1][f] # Absent
                  /\ req.preferences[1][f] \notin SUPPORTED_LANGUAGES
    THEN "invalid-argument"
    ELSE "ok"

\* updateUserLanguage(request); setOk: whether the store accepts the write
UpdateUserLanguage(req, setOk) ==
    LET verdict == IF validateUserUpdate(req) # "ok" THEN validateUserUpdate(req)
                   ELSE IF ~setOk THEN "internal" ELSE Undefined
    IN  /\ userDoc' =
             IF verdict # Undefined THEN userDoc
             ELSE [exists |-> TRUE,
                   language |-> req.language,
                   languageSource |-> "user-selected",
                   languagePreferences |->
                      IF Len(req.preferences) = 1
                      THEN mergePrefs(userDoc.languagePreferences,
                                      req.preferences[1])
                      ELSE userDoc.languagePreferences]
        /\ lastSelected' =
             IF verdict # Undefined THEN lastSelected
             ELSE <<[language |-> req.language, preferences |-> req.preferences]>>
        /\ lastUserResponse' =
             <<[op |-> "update", uid |-> req.uid, thrown |-> verdict,
                language |-> Absent, isDefault |-> FALSE, preferences |-> <<>>]>>
        /\ UNCHANGED userCall
        /\ UNCHANGED notUser

\* getUserLanguage up to the read of the user document (350-373)
GetUserLanguageRead(req) ==
    LET targetUserId == IF req.userId # Undefined THEN req.userId ELSE req.uid
        verdict == IF req.uid = Undefined THEN "unauthenticated"
                   ELSE IF targetUserId # req.uid /\ ~req.admin
                   THEN "permission-denied"
                   ELSE Undefined
    IN  /\ userCall = <<>>
        /\ userCall' =
             IF verdict # Undefined THEN <<>>
             ELSE <<[request |-> req, userDoc |-> userDoc,
                     selected |-> lastSelected]>>
        /\ lastUserResponse' =
             IF verdict = Undefined THEN lastUserResponse
             ELSE <<[op |-> "get", uid |-> req.uid, thrown |-> verdict,
                     language |-> Absent, isDefault |-> FALSE,
                     preferences |-> <<>>]>>
        /\ UNCHANGED <<userDoc, lastSelected>>
        /\ UNCHANGED notUser

\* getUserLanguage from the document it read to its response (375-423);
\* setOk: whether the store accepts the write of the detected language
GetUserLanguageReturn(setOk) ==
    /\ userCall # <<>>
    /\ LET req == userCall[1].request
           read == readLanguage(userCall[1].userDoc)
           detected == IF read.isDefault
                       THEN detectLanguageFromHeader(req.header) ELSE <<>>
           writes == detected # <<>>
       IN  /\ userDoc' =
                IF writes /\ setOk
                THEN [userDoc EXCEPT !.exists = TRUE,
                                     !.language = detected[1],
                                     !.languageSource = "auto-detected"]
                ELSE userDoc
           /\ lastUserResponse' =
                IF writes /\ ~setOk
                THEN <<[op |-> "get", uid |-> req.uid, thrown |-> "internal",
                        language |-> Absent, isDefault |-> FALSE,
                        preferences |-> <<>>]>>
                ELSE <<[op |-> "get", uid |-> req.uid, thrown |-> Undefined,
                        language |-> IF writes THEN detected[1]
                                     ELSE read.language,
                        isDefault |-> read.isDefault /\ ~writes,
                        preferences |-> read.preferences]>>
    /\ userCall' = <<>>
    /\ UNCHANGED lastSelected
    /\ UNCHANGED notUser

userIdle ==
    /\ userDoc = noUserDoc
    /\ userCall = <<>>
    /\ lastSelected = <<>>
    /\ lastUserResponse = <<>>

\* ------------------------------------------------------------------------
\* TranslationService: the singleton and its initialisation
\* ------------------------------------------------------------------------
MaxOverlap == 3                           \* initialize() calls in flight at once

\* The config argument of getInstance: <<>> when omitted, else the caching
\* settings it carries
ConfigInputs ==
    { <<>>, <<[enabled |-> FALSE, maxSize |-> MaxSizeCfg]>>,
      <<[enabled |-> TRUE, maxSize |-> 1]>> }

\* constructor(config): { ...defaults, ...config }
construct(cfg) ==
    IF cfg = <<>> THEN [enabled |-> TRUE, maxSize |-> MaxSizeCfg] ELSE cfg[1]

\* getInstance without its test of TranslationService.instance
getInstanceAlwaysNew(cur, cfg) ==
    [instance |-> cur.instance + 1, config |-> construct(cfg)]

\* getInstance(config): the instance and its configuration afterwards;
\* instance 0 stands for no instance yet
getInstance(cur, cfg) ==
    IF cur.instance = 0
    THEN [instance |-> 1, config |-> construct(cfg)]
    ELSE cur

\* TranslationService.getInstance(config), called after the module was loaded
GetInstance(cfg) ==
    LET after == getInstance([instance |-> instance, config |-> config], cfg)
    IN  /\ instance' = after.instance
        /\ config' = after.config
        /\ lastGetInstance' = <<[config |-> cfg, returned |-> after.instance]>>
        /\ UNCHANGED <<initialized, initializing, runtimeWired>>
        /\ UNCHANGED <<browser, language, storedLanguage, translationCache,
                       cleanupTimers, lastChange, firstCall, callPair>>
        /\ UNCHANGED notInit

\* initialize() up to its await of i18n.init (85-150)
InitializeBegin ==
    /\ IF initialized
       THEN UNCHANGED initializing
       ELSE /\ initializing.runtime + initializing.terms < MaxOverlap
            /\ initializing' =
                 [initializing EXCEPT !.runtime = initializing.runtime + 1]
    /\ UNCHANGED <<instance, initialized, runtimeWired, lastGetInstance>>
    /\ UNCHANGED tsVars
    /\ UNCHANGED notInit

\* initialize() from the settling of i18n.init to its await of
\* loadProfessionalTerminology (152-162); ok: whether i18n.init resolved
InitializeRuntimeReady(ok) ==
    /\ initializing.runtime > 0
    /\ initializing' =
         [runtime |-> initializing.runtime - 1,
          terms |-> initializing.terms + (IF ok THEN 1 ELSE 0)]
    /\ initialized' = (initialized \/ ok)
    /\ runtimeWired' = runtimeWired + (IF ok THEN 1 ELSE 0)
    /\ UNCHANGED <<instance, lastGetInstance>>
    /\ UNCHANGED tsVars
    /\ UNCHANGED notInit

\* initialize() from there to its end (164-175): setupRTLSupport, which
\* needs a document, and setupCacheCleanup
InitializeFinish ==
    /\ initializing.terms > 0
    /\ initializing' = [initializing EXCEPT !.terms = initializing.terms - 1]
    /\ cleanupTimers' = cleanupTimers + (IF browser THEN 1 ELSE 0)
    /\ UNCHANGED <<instance, initialized, runtimeWired, lastGetInstance>>
    /\ UNCHANGED <<config, browser, language, storedLanguage, translationCache,
                   lastChange, firstCall, callPair>>
    /\ UNCHANGED notInit

\* The instance the module exports, initialised
initIdle ==
    /\ instance = 1
    /\ initialized = TRUE
    /\ initializing = [runtime |-> 0, terms |-> 0]
    /\ runtimeWired = 1
    /\ lastGetInstance = <<>>

\* The instance the module exports, before initialize() is called
InitInit ==
    /\ instance = 1
    /\ initialized = FALSE
    /\ initializing = [runtime |-> 0, terms |-> 0]
    /\ runtimeWired = 0
    /\ lastGetInstance = <<>>
    /\ config = construct(<<>>)
    /\ browser \in BOOLEAN
    /\ language = DEFAULT_LANGUAGE
    /\ storedLanguage = Undefined
    /\ translationCache = <<>>
    /\ cleanupTimers = 0
    /\ lastChange = <<>>
    /\ firstCall = <<>>
    /\ callPair = <<>>

\* ------------------------------------------------------------------------
\* I18nProvider: what the component renders
\* ------------------------------------------------------------------------
\* One provider is followed from a mount to its unmount; a new mount waits
\* for the call of the previous one to settle.
unmountedProvider ==
    [mounted |-> FALSE, currentLanguage |-> "en", isLoading |-> TRUE,
     error |-> FALSE, isInitialized |-> FALSE, awaiting |-> "none",
     pending |-> Undefined]

\* The render branches (897-923)
render(p) ==
    IF ~p.isInitialized \/ (p.isLoading /\ p.currentLanguage = Undefined)
    THEN "fallback"
    ELSE IF p.error /\ p.currentLanguage = Undefined
    THEN "error panel"
    ELSE "children"

\* Mount: the initialize effect up to its first await (798-811), or to its
\* end when no config was passed and nothing is awaited
ProviderMount(hasConfig) ==
    /\ ~provider.mounted
    /\ provider.awaiting = "none"
    /\ initializing.runtime + initializing.terms = 0
    /\ provider' =
         IF hasConfig
         THEN [unmountedProvider EXCEPT !.mounted = TRUE,
                                        !.awaiting = "initialize"]
         ELSE [unmountedProvider EXCEPT !.mounted = TRUE,
                                        !.currentLanguage = getCurrentLanguage,
                                        !.isInitialized = TRUE,
                                        !.isLoading = FALSE]
    /\ initializing' =
         IF hasConfig /\ ~initialized
         THEN [initializing EXCEPT !.runtime = initializing.runtime + 1]
         ELSE initializing
    /\ UNCHANGED <<instance, initialized, runtimeWired, lastGetInstance>>
    /\ UNCHANGED tsVars
    /\ UNCHANGED notProv

\* The awaited service.initialize() has settled (813-830); it resolved if
\* the service is initialised
ProviderInitSettled ==
    /\ provider.awaiting = "initialize"
    /\ initializing.runtime + initializing.terms = 0
    /\ provider' =
         IF ~provider.mounted THEN [provider EXCEPT !.awaiting = "none"]
         ELSE IF initialized
         THEN [provider EXCEPT !.awaiting = "none",
                               !.currentLanguage = getCurrentLanguage,
                               !.isInitialized = TRUE,
                               !.isLoading = FALSE]
         ELSE [provider EXCEPT !.awaiting = "none",
                               !.error = TRUE,
                               !.isLoading = FALSE]
    /\ UNCHANGED initVars
    /\ UNCHANGED tsVars
    /\ UNCHANGED notProv

\* changeLanguage(language) of the context, which only rendered children
\* can call, up to its await (841-846)
ProviderChangeLanguage(lang) ==
    /\ provider.mounted
    /\ render(provider) = "children"
    /\ provider.awaiting = "none"
    /\ provider' = [provider EXCEPT !.isLoading = TRUE, !.error = FALSE,
                                    !.awaiting = "changeLanguage",
                                    !.pending = lang]
    /\ UNCHANGED initVars
    /\ UNCHANGED tsVars
    /\ UNCHANGED notProv

\* translationService.changeLanguage runs and settles (846-857)
ProviderChangeSettled(outcome) ==
    /\ provider.awaiting = "changeLanguage"
    /\ changeLanguageStep(provider.pending, outcome)
    /\ provider' =
         IF changeLanguage(provider.pending, outcome).error = NoError
         THEN [provider EXCEPT !.awaiting = "none", !.pending = Undefined,
                               !.currentLanguage = provider.pending,
                               !.isLoading = FALSE]
         ELSE [provider EXCEPT !.awaiting = "none", !.pending = Undefined,
                               !.error = TRUE,
                               !.isLoading = FALSE]
    /\ UNCHANGED initVars
    /\ UNCHANGED notProv

\* Unmount: the effect's cleanup; the component's state is gone
ProviderUnmount ==
    /\ provider.mounted
    /\ provider.awaiting # "changeLanguage"
    /\ provider' = [unmountedProvider EXCEPT !.awaiting = provider.awaiting]
    /\ UNCHANGED initVars
    /\ UNCHANGED tsVars
    /\ UNCHANGED notProv

provIdle == provider = unmountedProvider

\* ------------------------------------------------------------------------
\* I18nLogger: the table of missing translations
\* ------------------------------------------------------------------------
\* The contexts callers report: I18nContext has the fields currentLocale,
\* namespace and key, and no field named locale
MissContexts ==
    [currentLocale : {"en", "fr"}, namespace : {"common", "cv"},
     key : {"title", "name"}]

\* A field of the context that the I18nContext interface does not have
contextLocale(context) == "undefined"

\* `${context.locale}_${context.namespace}_${context.key}`
missKey(context) ==
    contextLocale(context) \o "_" \o context.namespace \o "_" \o context.key

\* translationMiss(context)
TranslationMiss(context) ==
    /\ translationMisses' =
         IF \E m \in translationMisses : m.missKey = missKey(context)
         THEN translationMisses
         ELSE translationMisses \cup
                 {[missKey |-> missKey(context), key |-> context.key,
                   namespace |-> context.namespace,
                   locale |-> context.currentLocale]}
    /\ reportedMisses' = reportedMisses \cup
                            {<<context.currentLocale, context.namespace,
                               context.key>>}
    /\ UNCHANGED notMiss

\* getTranslationMissStats().totalMisses
totalMisses == Cardinality(translationMisses)

\* clearTranslationMisses()
ClearTranslationMisses ==
    /\ translationMisses' = {}
    /\ reportedMisses' = {}
    /\ UNCHANGED notMiss

missIdle ==
    /\ translationMisses = {}
    /\ reportedMisses = {}

\* ------------------------------------------------------------------------
\* LanguageSelector, dropdown variant: keyboard and mouse
\* ------------------------------------------------------------------------
\* focusedIndex counts from 0 as in the component; -1 is no option
SelectableLists ==
    { <<>>, <<"en">>, <<"en", "ar">>, <<"en", "es", "ar">> }
SelectorKeys ==
    {"Enter", " ", "Escape", "ArrowDown", "ArrowUp", "Home", "End", "a"}

\* availableLanguages.findIndex(lang => lang === currentLanguage)
findIndex(list, lang) ==
    IF \E i \in 1..Len(list) : list[i] = lang
    THEN (CHOOSE i \in 1..Len(list) : list[i] = lang) - 1
    ELSE -1

\* ArrowDown on an open list, without the return to the first option
arrowDownNoWrap(prev, n) == prev + 1

\* ArrowDown on an open list (81-83)
arrowDown(prev, n) == IF prev < n - 1 THEN prev + 1 ELSE 0

\* ArrowUp on an open list (91-93)
arrowUp(prev, n) == IF prev > 0 THEN prev - 1 ELSE n - 1

\* handleLanguageSelect(language) up to its await (112-116): the selection
\* it starts, or Undefined
startSelect(lang) ==
    IF selectorProps.disabled \/ lang = getCurrentLanguage \/ lang = Undefined
    THEN Undefined
    ELSE lang

\* The option at a focused index, Undefined if there is none
optionAt(index) ==
    IF index + 1 \in 1..Len(selectorProps.availableLanguages)
    THEN selectorProps.availableLanguages[index + 1]
    ELSE Undefined

\* handleKeyDown(event) (45-110): the state it leaves
handleKeyDown(key) ==
    LET n == Len(selectorProps.availableLanguages)
        open == selector.isOpen
        idx == selector.focusedIndex
    IN  IF selectorProps.disabled THEN selector
        ELSE CASE key \in {"Enter", " "} ->
                    IF ~open
                    THEN [selector EXCEPT
                            !.isOpen = TRUE,
                            !.focusedIndex =
                               findIndex(selectorProps.availableLanguages,
                                         getCurrentLanguage)]
                    ELSE IF idx >= 0 /\ selector.pending = Undefined
                    THEN [selector EXCEPT !.pending = startSelect(optionAt(idx))]
                    ELSE selector
               [] key = "Escape" ->
                    IF open
                    THEN [selector EXCEPT !.isOpen = FALSE, !.focusedIndex = -1]
                    ELSE selector
               [] key = "ArrowDown" ->
                    IF ~open
                    THEN [selector EXCEPT !.isOpen = TRUE, !.focusedIndex = 0]
                    ELSE [selector EXCEPT !.focusedIndex = arrowDown(idx, n)]
               [] key = "ArrowUp" ->
                    IF open
                    THEN [selector EXCEPT !.focusedIndex = arrowUp(idx, n)]
                    ELSE selector
               [] key = "Home" ->
                    IF open THEN [selector EXCEPT !.focusedIndex = 0]
                    ELSE selector
               [] key = "End" ->
                    IF open THEN [selector EXCEPT !.focusedIndex = n - 1]
                    ELSE selector
               [] OTHER -> selector

eventOf(kind, key) ==
    <<[kind |-> kind, key |-> key, wasOpen |-> selector.isOpen,
       fromIndex |-> selector.focusedIndex, fromLanguage |-> language]>>

\* A key pressed on the button
SelectorKeyDown(key) ==
    /\ selector' = handleKeyDown(key)
    /\ selectorEvent' = eventOf("key", key)
    /\ UNCHANGED selectorProps
    /\ UNCHANGED notSel

\* A click on the button (176)
SelectorClickButton ==
    /\ selector' = IF selectorProps.disabled THEN selector
                   ELSE [selector EXCEPT !.isOpen = ~selector.isOpen]
    /\ selectorEvent' = eventOf("click", "button")
    /\ UNCHANGED selectorProps
    /\ UNCHANGED notSel

\* The pointer enters, or a click lands on, option i of the open list
SelectorOption(i, click) ==
    /\ selector.isOpen
    /\ i \in 0..(Len(selectorProps.availableLanguages) - 1)
    /\ selector' =
         IF click
         THEN IF selector.pending = Undefined
              THEN [selector EXCEPT !.pending = startSelect(optionAt(i))]
              ELSE selector
         ELSE [selector EXCEPT !.focusedIndex = i]
    /\ selectorEvent' = eventOf(IF click THEN "click" ELSE "enter", "option")
    /\ UNCHANGED selectorProps
    /\ UNCHANGED notSel

\* A mousedown outside the component (32-37)
SelectorClickOutside ==
    /\ selector' = [selector EXCEPT !.isOpen = FALSE, !.focusedIndex = -1]
    /\ selectorEvent' = eventOf("click", "outside")
    /\ UNCHANGED selectorProps
    /\ UNCHANGED notSel

\* The awaited changeLanguage of handleLanguageSelect settles (116-122)
SelectorChangeSettled(outcome) ==
    /\ selector.pending # Undefined
    /\ changeLanguageStep(selector.pending, outcome)
    /\ selector' =
         IF changeLanguage(selector.pending, outcome).error = NoError
         THEN [isOpen |-> FALSE, focusedIndex |-> -1, pending |-> Undefined]
         ELSE [selector EXCEPT !.pending = Undefined]
    /\ selectorEvent' = eventOf("settled", "changeLanguage")
    /\ UNCHANGED selectorProps
    /\ UNCHANGED notSelTS

selIdle ==
    /\ selector = [isOpen |-> FALSE, focusedIndex |-> -1, pending |-> Undefined]
    /\ selectorProps = [disabled |-> FALSE,
                        availableLanguages |-> <<"en", "es", "ar">>]
    /\ selectorEvent = <<>>

\* ------------------------------------------------------------------------
\* PLURALIZATION_RULES
\* ------------------------------------------------------------------------
MaxCount == 115                           \* counts are tried from 0 up to here
FrenchMany == 1000000
PluralCounts == 0..MaxCount \cup {FrenchMany - 1, FrenchMany, FrenchMany + 1}

\* The rule of en, es, de, pt and nl, for every language
englishRule(lang, count) == IF count = 1 THEN "one" ELSE "other"

\* PLURALIZATION_RULES[lang].rule(count)
pluralRule(lang, count) ==
    CASE lang \in {"en", "es", "de", "pt", "nl"} ->
            IF count = 1 THEN "one" ELSE "other"
      [] lang = "fr" ->
            IF count = 0 \/ count = 1 THEN "one"
            ELSE IF count >= FrenchMany THEN "many"
            ELSE "other"
      [] lang \in {"ja", "zh"} -> "other"
      [] lang = "ar" ->
            IF count = 0 THEN "zero"
            ELSE IF count = 1 THEN "one"
            ELSE IF count = 2 THEN "two"
            ELSE IF count >= 3 /\ count <= 10 THEN "few"
            ELSE IF count >= 11 /\ count <= 99 THEN "many"
            ELSE "other"
      [] lang = "ru" ->
            LET lastDigit == count % 10
                lastTwoDigits == count % 100
            IN  IF lastDigit = 1 /\ lastTwoDigits # 11 THEN "one"
                ELSE IF /\ lastDigit >= 2 /\ lastDigit <= 4
                        /\ ~(lastTwoDigits >= 12 /\ lastTwoDigits <= 14)
                THEN "few"
                ELSE IF \/ lastDigit = 0
                        \/ (lastDigit >= 5 /\ lastDigit <= 9)
                        \/ (lastTwoDigits >= 11 /\ lastTwoDigits <= 14)
                THEN "many"
                ELSE "other"

\* A call of one language's rule
PluralRule(lang, count) ==
    /\ pluralCall' = <<[language |-> lang, count |-> count,
                        category |-> pluralRule(lang, count)]>>
    /\ UNCHANGED notPlural

pluralIdle == pluralCall = <<>>

\* ------------------------------------------------------------------------
\* RegionalLocalizationService.optimizeForRegion: recommendations
\* ------------------------------------------------------------------------
\* What the checks read of a CV: personal fields present, estimated pages
CvInputs ==
    [age : BOOLEAN, maritalStatus : BOOLEAN, photo : BOOLEAN, pages : 1..3]

\* What the checks read of a regional configuration
RegionInputs ==
    [prohibitedInfo : {<<>>, <<"marital_status">>,
                       <<"age", "marital_status", "photo">>},
     photoRequired : BOOLEAN,
     preferredLength : {1, 2}]

\* ComplianceChecker.checkProhibitedInfo: the issue found, if any
checkProhibitedInfo(cv, prohibitedType) ==
    CASE prohibitedType = "age" /\ cv.age ->
            <<[type |-> "age", severity |-> "error"]>>
      [] prohibitedType = "marital_status" /\ cv.maritalStatus ->
            <<[type |-> "marital_status", severity |-> "warning"]>>
      [] prohibitedType = "photo" /\ cv.photo ->
            <<[type |-> "photo", severity |-> "warning"]>>
      [] OTHER -> <<>>

\* ComplianceChecker.checkLegalCompliance(...).issues
RECURSIVE complianceIssues(_, _)
complianceIssues(cv, prohibitedInfo) ==
    IF prohibitedInfo = <<>> THEN <<>>
    ELSE checkProhibitedInfo(cv, Head(prohibitedInfo))
             \o complianceIssues(cv, Tail(prohibitedInfo))

\* CulturalOptimizer.generateFormatAdjustments
generateFormatAdjustments(cv, region) ==
    (IF region.photoRequired /\ ~cv.photo
         THEN <<[aspect |-> "photo", importance |-> "high"]>>
     ELSE IF ~region.photoRequired /\ cv.photo
         THEN <<[aspect |-> "photo", importance |-> "medium"]>>
     ELSE <<>>)
    \o (IF 2 * cv.pages > 2 * region.preferredLength + 1
            THEN <<[aspect |-> "length", importance |-> "high"]>>
        ELSE <<>>)
    \o <<[aspect |-> "date_format", importance |-> "low"]>>

legalRecommendation(issue) ==
    [category |-> "legal", about |-> issue.type,
     priority |-> IF issue.severity = "error" THEN 1 ELSE 2]

formatRecommendation(adjustment) ==
    [category |-> "format", about |-> adjustment.aspect,
     priority |-> IF adjustment.importance = "high" THEN 2 ELSE 3]

\* recommendations.sort((a, b) => a.priority - b.priority): a stable sort
sortByPriority(recs) ==
    LET of(p) == SelectSeq(recs, LAMBDA r : r.priority = p)
    IN  of(1) \o of(2) \o of(3) \o of(4) \o of(5)

\* RegionalLocalizationService.generateRecommendations
generateRecommendations(issues, formatAdjustments) ==
    sortByPriority(
        [i \in 1..Len(issues) |-> legalRecommendation(issues[i])]
        \o [i \in 1..Len(formatAdjustments) |->
                formatRecommendation(formatAdjustments[i])])

\* RegionalLocalizationService.optimizeForRegion for a supported region
OptimizeForRegion(cv, region) ==
    /\ lastOptimization' =
          <<[cvData |-> cv, regionConfig |-> region,
             localizedRecommendations |->
                 generateRecommendations(
                     complianceIssues(cv, region.prohibitedInfo),
                     generateFormatAdjustments(cv, region))]>>
    /\ UNCHANGED notReg

regIdle == lastOptimization = <<>>

\* ------------------------------------------------------------------------
\* RTLService: direction and CSS class transformation
\* ------------------------------------------------------------------------
\* A class list is a sequence of class names; a class name is the sequence of
\* its "-"-separated words ("ml-4" is <<"ml", "4">>).  Every "-" is a word
\* boundary (\b) on both sides, so a pattern matches a run of whole words.
Numbers == {"2", "4"}                     \* words matching \d+
ClassNames ==
    { <<"flex", "row">>, <<"flex", "row", "reverse">>,
      <<"text", "left">>, <<"text", "right">>,
      <<"float", "left">>, <<"float", "right">>,
      <<"border", "l">>, <<"border", "r">>,
      <<"flex">>, <<"p", "4">>, <<"text", "center">> }
    \cup { <<w, "4">> : w \in {"ml", "mr", "pl", "pr", "left", "right"} }
    \cup { <<"border", w, "2">> : w \in {"l", "r"} }
ClassLists ==
    { <<a>> : a \in ClassNames }
    \cup { <<a, b>> : a \in ClassNames,
                      b \in { <<"text", "left">>, <<"text", "right">>, <<"p", "4">> } }
RTLLayoutOptions == [mirrorLayout : BOOLEAN, adjustSpacing : BOOLEAN]

\* Placeholders that carry a captured number: "__TEMP_ML_$1__" and the like
NumberedTemps == {"__TEMP_ML_", "__TEMP_PL_", "__TEMP_BORDER_L_", "__TEMP_LEFT_"}
fill(temp, n) == temp \o n \o "__"

\* One word against one pattern element: "#" stands for (\d+), a numbered
\* placeholder for its pattern with (\d+) inside, anything else for itself
wordMatches(word, pe) ==
    IF pe = "#" THEN word \in Numbers
    ELSE IF pe \in NumberedTemps THEN \E n \in Numbers : word = fill(pe, n)
    ELSE word = pe

matchesAt(name, i, pat) ==
    /\ i + Len(pat) - 1 <= Len(name)
    /\ \A j \in 1..Len(pat) : wordMatches(name[i + j - 1], pat[j])

\* The text captured as $1, if the pattern captures
captured(name, i, pat) ==
    IF \E j \in 1..Len(pat) : pat[j] = "#"
    THEN name[i + (CHOOSE j \in 1..Len(pat) : pat[j] = "#") - 1]
    ELSE IF \E j \in 1..Len(pat) : pat[j] \in NumberedTemps
    THEN LET j == CHOOSE k \in 1..Len(pat) : pat[k] \in NumberedTemps
         IN  CHOOSE n \in Numbers : name[i + j - 1] = fill(pat[j], n)
    ELSE ""

substitute(rep, n) ==
    [k \in 1..Len(rep) |->
        IF rep[k] = "#" THEN n
        ELSE IF rep[k] \in NumberedTemps THEN fill(rep[k], n)
        ELSE rep[k]]

\* String.prototype.replace with a /g pattern, on one class name
RECURSIVE replaceFrom(_, _, _, _)
replaceFrom(name, i, pat, rep) ==
    IF i > Len(name) THEN <<>>
    ELSE IF matchesAt(name, i, pat)
    THEN substitute(rep, captured(name, i, pat))
             \o replaceFrom(name, i + Len(pat), pat, rep)
    ELSE <<name[i]>> \o replaceFrom(name, i + 1, pat, rep)

replace(name, pat, rep) == replaceFrom(name, 1, pat, rep)

\* A chain of replace calls, applied in order
RECURSIVE replaceChain(_, _)
replaceChain(name, rules) ==
    IF Len(rules) = 0 THEN name
    ELSE replaceChain(replace(name, Head(rules)[1], Head(rules)[2]), Tail(rules))

\* The second transformCSSClasses in the same file (index.tsx 552-598): the
\* same swaps chained without placeholders
legacyTransformCSSClasses(classes, options) ==
    IF currentDirection = "ltr" THEN classes
    ELSE LET layout == << << <<"flex", "row">>, <<"flex", "row", "reverse">> >>,
                          << <<"flex", "row", "reverse">>, <<"flex", "row">> >>,
                          << <<"text", "left">>, <<"text", "right">> >>,
                          << <<"text", "right">>, <<"text", "left">> >>,
                          << <<"float", "left">>, <<"float", "right">> >>,
                          << <<"float", "right">>, <<"float", "left">> >> >>
             spacing == << << <<"ml", "#">>, <<"mr", "#">> >>,
                           << <<"mr", "#">>, <<"ml", "#">> >>,
                           << <<"pl", "#">>, <<"pr", "#">> >>,
                           << <<"pr", "#">>, <<"pl", "#">> >>,
                           << <<"border", "l">>, <<"border", "r">> >>,
                           << <<"border", "r">>, <<"border", "l">> >>,
                           << <<"border", "l", "#">>, <<"border", "r", "#">> >>,
                           << <<"border", "r", "#">>, <<"border", "l", "#">> >>,
                           << <<"left", "#">>, <<"right", "#">> >>,
                           << <<"right", "#">>, <<"left", "#">> >> >>
             rules == (IF options.mirrorLayout THEN layout ELSE <<>>)
                      \o (IF options.adjustSpacing THEN spacing ELSE <<>>)
         IN  [k \in 1..Len(classes) |-> replaceChain(classes[k], rules)]

\* transformCSSClasses (index.tsx 159-213): each pair is swapped through a
\* placeholder
transformCSSClasses(classes, options) ==
    IF currentDirection = "ltr" THEN classes
    ELSE LET layout == << << <<"flex", "row", "reverse">>, <<"__TEMP_FLEX_ROW__">> >>,
                          << <<"flex", "row">>, <<"flex", "row", "reverse">> >>,
                          << <<"__TEMP_FLEX_ROW__">>, <<"flex", "row">> >>,
                          << <<"text", "right">>, <<"__TEMP_TEXT_LEFT__">> >>,
                          << <<"text", "left">>, <<"text", "right">> >>,
                          << <<"__TEMP_TEXT_LEFT__">>, <<"text", "left">> >>,
                          << <<"float", "right">>, <<"__TEMP_FLOAT_LEFT__">> >>,
                          << <<"float", "left">>, <<"float", "right">> >>,
                          << <<"__TEMP_FLOAT_LEFT__">>, <<"float", "left">> >> >>
             spacing == << << <<"mr", "#">>, <<"__TEMP_ML_">> >>,
                           << <<"ml", "#">>, <<"mr", "#">> >>,
                           << <<"__TEMP_ML_">>, <<"ml", "#">> >>,
                           << <<"pr", "#">>, <<"__TEMP_PL_">> >>,
                           << <<"pl", "#">>, <<"pr", "#">> >>,
                           << <<"__TEMP_PL_">>, <<"pl", "#">> >>,
                           << <<"border", "r">>, <<"__TEMP_BORDER_L__">> >>,
                           << <<"border", "l">>, <<"border", "r">> >>,
                           << <<"__TEMP_BORDER_L__">>, <<"border", "l">> >>,
                           << <<"border", "r", "#">>, <<"__TEMP_BORDER_L_">> >>,
                           << <<"border", "l", "#">>, <<"border", "r", "#">> >>,
                           << <<"__TEMP_BORDER_L_">>, <<"border", "l", "#">> >>,
                           << <<"right", "#">>, <<"__TEMP_LEFT_">> >>,
                           << <<"left", "#">>, <<"right", "#">> >>,
                           << <<"__TEMP_LEFT_">>, <<"left", "#">> >> >>
             rules == (IF options.mirrorLayout THEN layout ELSE <<>>)
                      \o (IF options.adjustSpacing THEN spacing ELSE <<>>)
         IN  [k \in 1..Len(classes) |-> replaceChain(classes[k], rules)]

\* LANGUAGE_CONFIG[language].dir || 'ltr'
getDirection(lang) == IF lang = "ar" THEN "rtl" ELSE "ltr"

\* Observers of the direction, and the marker of an observer left uninvoked
Observers == {"o1", "o2", "o3"}
NotInvoked == "<not invoked>"
nobodyInvoked == [o \in Observers |-> NotInvoked]

\* this.observers.delete(observer), left out
unsubscribeKeeps(obs, o) == obs

\* this.observers.delete(observer)
unsubscribe(obs, o) == obs \ {o}

\* notifyObservers(direction): who is invoked, and with what
notifyObservers(obs, direction) ==
    [o \in Observers |-> IF o \in obs THEN direction ELSE NotInvoked]

\* applyRTLConfig(language), through updateDocumentDirection and
\* notifyObservers
ApplyRTLConfig(lang) ==
    /\ currentDirection' = getDirection(lang)
    /\ lastTransform' = <<>>
    /\ invoked' = notifyObservers(observers, getDirection(lang))
    /\ UNCHANGED <<observers, subscribed, lastGenerated>>
    /\ UNCHANGED notRTL

\* transformCSSClasses(classes, options); the call is remembered together with
\* the input of the call before it when it was given that call's output
TransformCSSClasses(classes, options) ==
    /\ lastTransform' =
         <<[input |-> classes, options |-> options,
            direction |-> currentDirection,
            output |-> transformCSSClasses(classes, options),
            previous |-> IF /\ Len(lastTransform) = 1
                            /\ lastTransform[1].output = classes
                            /\ lastTransform[1].options = options
                         THEN <<lastTransform[1].input>>
                         ELSE <<>>]>>
    /\ invoked' = nobodyInvoked
    /\ UNCHANGED <<currentDirection, observers, subscribed, lastGenerated>>
    /\ UNCHANGED notRTL

\* subscribe(observer)
Subscribe(o) ==
    /\ observers' = observers \cup {o}
    /\ invoked' = [nobodyInvoked EXCEPT ![o] = currentDirection]
    /\ subscribed' = [subscribed EXCEPT ![o] = "subscribed"]
    /\ UNCHANGED <<currentDirection, lastTransform, lastGenerated>>
    /\ UNCHANGED notRTL

\* A call of the function subscribe(observer) returned
Unsubscribe(o) ==
    /\ subscribed[o] # "never"
    /\ observers' = unsubscribe(observers, o)
    /\ invoked' = nobodyInvoked
    /\ subscribed' = [subscribed EXCEPT ![o] = "unsubscribed"]
    /\ UNCHANGED <<currentDirection, lastTransform, lastGenerated>>
    /\ UNCHANGED notRTL

\* Arguments of createClassGenerator and of the function it returns:
\* rtlClasses is <<>> when omitted, the flag "omitted" when not passed
GeneratorBases == { << <<"text", "left">> >>, << <<"p", "4">> >>,
                    << <<"ml", "4">>, <<"flex", "row">> >> }
GeneratorOverrides == { <<>>, << <<"text", "right">> >> }
GeneratorFlags == {"true", "false", "omitted"}

\* The function returned by createClassGenerator(baseClasses, rtlClasses)
classGenerator(baseClasses, rtlClasses, flag) ==
    LET isRTL == IF flag = "omitted" THEN currentDirection = "rtl"
                 ELSE flag = "true"
    IN  IF isRTL /\ rtlClasses # <<>> THEN baseClasses \o rtlClasses
        ELSE IF isRTL
        THEN transformCSSClasses(baseClasses,
                 [mirrorLayout |-> TRUE, adjustSpacing |-> TRUE])
        ELSE baseClasses

\* createClassGenerator(baseClasses, rtlClasses)(flag)
CallClassGenerator(baseClasses, rtlClasses, flag) ==
    /\ lastGenerated' =
         <<[base |-> baseClasses, rtl |-> rtlClasses, flag |-> flag,
            direction |-> currentDirection,
            output |-> classGenerator(baseClasses, rtlClasses, flag)]>>
    /\ invoked' = nobodyInvoked
    /\ UNCHANGED <<currentDirection, lastTransform, observers, subscribed>>
    /\ UNCHANGED notRTL

rtlIdle ==
    /\ currentDirection = "ltr"
    /\ lastTransform = <<>>
    /\ observers = {}
    /\ subscribed = [o \in Observers |-> "never"]
    /\ invoked = nobodyInvoked
    /\ lastGenerated = <<>>

tsIdle ==
    /\ config = [enabled |-> TRUE, maxSize |-> MaxSizeCfg]
    /\ browser = TRUE
    /\ language = DEFAULT_LANGUAGE
    /\ storedLanguage = Undefined
    /\ translationCache = <<>>
    /\ cleanupTimers = 1
    /\ lastChange = <<>>
    /\ firstCall = <<>>
    /\ callPair = <<>>

InitRTL == rtlIdle /\ tsIdle /\ bulkIdle /\ itemsIdle /\ updIdle /\ userIdle
    /\ initIdle
    /\ provIdle
    /\ missIdle
    /\ selIdle
    /\ pluralIdle
    /\ regIdle
    /\ statusIdle

NextRTL ==
    \/ \E lang \in LanguageInputs : ApplyRTLConfig(lang)
    \/ \E classes \in ClassLists, options \in RTLLayoutOptions :
          TransformCSSClasses(classes, options)

SpecRTL == InitRTL /\ [][NextRTL]_vars

InitDir == rtlIdle /\ tsIdle /\ bulkIdle /\ itemsIdle /\ updIdle /\ userIdle
    /\ initIdle
    /\ provIdle
    /\ missIdle
    /\ selIdle
    /\ pluralIdle
    /\ regIdle
    /\ statusIdle

NextDir ==
    \/ \E lang \in LanguageInputs : ApplyRTLConfig(lang)
    \/ \E o \in Observers : Subscribe(o)
    \/ \E o \in Observers : Unsubscribe(o)
    \/ \E baseClasses \in GeneratorBases, rtlClasses \in GeneratorOverrides,
          flag \in GeneratorFlags :
          CallClassGenerator(baseClasses, rtlClasses, flag)

SpecDir == InitDir /\ [][NextDir]_vars

InitSingleton ==
    InitInit /\ rtlIdle /\ bulkIdle /\ itemsIdle /\ updIdle /\ userIdle
    /\ provIdle
    /\ missIdle
    /\ selIdle
    /\ pluralIdle
    /\ regIdle
    /\ statusIdle

NextSingleton ==
    \/ \E cfg \in ConfigInputs : GetInstance(cfg)
    \/ InitializeBegin
    \/ \E ok \in BOOLEAN : InitializeRuntimeReady(ok)
    \/ InitializeFinish

SpecSingleton == InitSingleton /\ [][NextSingleton]_vars

InitProvider == InitSingleton /\ browser

NextProvider ==
    \/ \E hasConfig \in BOOLEAN : ProviderMount(hasConfig)
    \/ \E ok \in BOOLEAN : InitializeRuntimeReady(ok)
    \/ InitializeFinish
    \/ ProviderInitSettled
    \/ \E lang \in LanguageInputs : ProviderChangeLanguage(lang)
    \/ \E outcome \in {"ok", "runtimeFails", "storageFails"} :
          ProviderChangeSettled(outcome)
    \/ ProviderUnmount

SpecProvider == InitProvider /\ [][NextProvider]_vars

InitMiss ==
    missIdle /\ tsIdle /\ rtlIdle /\ bulkIdle /\ itemsIdle /\ updIdle
    /\ userIdle /\ initIdle /\ provIdle
    /\ selIdle
    /\ pluralIdle
    /\ regIdle
    /\ statusIdle

NextMiss ==
    \/ \E context \in MissContexts : TranslationMiss(context)
    \/ ClearTranslationMisses

SpecMiss == InitMiss /\ [][NextMiss]_vars

InitSelector ==
    /\ selector = [isOpen |-> FALSE, focusedIndex |-> -1, pending |-> Undefined]
    /\ selectorProps \in [disabled : BOOLEAN, availableLanguages : SelectableLists]
    /\ selectorEvent = <<>>
    /\ missIdle /\ tsIdle /\ rtlIdle /\ bulkIdle /\ itemsIdle /\ updIdle
    /\ userIdle /\ initIdle /\ provIdle
    /\ pluralIdle
    /\ regIdle
    /\ statusIdle

NextSelector ==
    \/ \E key \in SelectorKeys : SelectorKeyDown(key)
    \/ SelectorClickButton
    \/ \E i \in 0..2, click \in BOOLEAN : SelectorOption(i, click)
    \/ SelectorClickOutside
    \/ \E outcome \in {"ok", "runtimeFails"} : SelectorChangeSettled(outcome)

SpecSelector == InitSelector /\ [][NextSelector]_vars

InitPlural ==
    selIdle /\ missIdle /\ tsIdle /\ rtlIdle /\ bulkIdle
    /\ itemsIdle /\ updIdle /\ userIdle /\ initIdle /\ provIdle
    /\ pluralIdle
    /\ regIdle
    /\ statusIdle

NextPlural ==
    \E lang \in SUPPORTED_LANGUAGES, count \in PluralCounts :
        PluralRule(lang, count)

SpecPlural == InitPlural /\ [][NextPlural]_vars

InitRegion ==
    selIdle /\ missIdle /\ tsIdle /\ rtlIdle /\ bulkIdle
    /\ itemsIdle /\ updIdle /\ userIdle /\ initIdle /\ provIdle
    /\ pluralIdle
    /\ regIdle
    /\ statusIdle

NextRegion ==
    \E cv \in CvInputs, region \in RegionInputs : OptimizeForRegion(cv, region)

SpecRegion == InitRegion /\ [][NextRegion]_vars

InitOverlap ==
    selIdle /\ missIdle /\ tsIdle /\ rtlIdle /\ bulkIdle
    /\ itemsIdle /\ updIdle /\ userIdle /\ initIdle /\ provIdle
    /\ pluralIdle
    /\ regIdle
    /\ statusIdle

NextOverlap ==
    \/ \E c \in Calls, req \in OverlappingRequests : UpdateTranslationsRead(c, req)
    \/ \E c \in Calls : UpdateTranslationsWrite(c)

SpecOverlap == InitOverlap /\ [][NextOverlap]_vars

InitBulk == bulkIdle /\ tsIdle /\ rtlIdle /\ itemsIdle /\ updIdle /\ userIdle
    /\ initIdle
    /\ provIdle
    /\ missIdle
    /\ selIdle
    /\ pluralIdle
    /\ regIdle
    /\ statusIdle

NextBulk ==
    \/ \E req \in BulkRequests, setOk, markOk \in BOOLEAN :
          BulkTranslation(req, setOk, markOk)
    \/ SplitBatches
    \/ \E failing \in SUBSET FailableCalls, updateOk, markOk \in BOOLEAN :
          ProcessBatch(failing, updateOk, markOk)
    \/ \E updateOk, markOk \in BOOLEAN : Finalize(updateOk, markOk)
    \/ \E setOk, markOk \in BOOLEAN : StoreResults(setOk, markOk)

SpecBulk == InitBulk /\ [][NextBulk]_vars

\* Jobs under one supplied id, started by either user, and status readers
JobRequests ==
    { [uid |-> u, jobId |-> SuppliedJobId, content |-> c] :
        u \in Users,
        c \in {SmallContent,
               [items |-> InlineResultsMax + 1, targetLanguages |-> 1,
                batchSize |-> DefaultBatchSize]} }

InitJobs == InitBulk

NextJobs ==
    \/ \E req \in JobRequests, setOk, markOk \in BOOLEAN :
          BulkTranslation(req, setOk, markOk)
    \/ SplitBatches
    \/ \E failing \in {{}, {<<1, 1>>}}, updateOk, markOk \in BOOLEAN :
          ProcessBatch(failing, updateOk, markOk)
    \/ \E updateOk, markOk \in BOOLEAN : Finalize(updateOk, markOk)
    \/ \E setOk, markOk \in BOOLEAN : StoreResults(setOk, markOk)
    \/ \E req \in StatusRequests : GetBulkTranslationStatus(req)

SpecJobs == InitJobs /\ [][NextJobs]_vars

\* Requests that pass the checks, with the batch sizes a caller may send
SplitRequests ==
    { [uid |-> "u1", jobId |-> j,
       content |-> [items |-> n, targetLanguages |-> 1, batchSize |-> b]] :
        j \in {Undefined, SuppliedJobId}, n \in 1..3, b \in {0, 1, 2, DefaultBatchSize} }

InitSplit == InitBulk

NextSplit ==
    \/ \E req \in SplitRequests, setOk \in BOOLEAN :
          BulkTranslation(req, setOk, TRUE)
    \/ SplitBatches
    \/ \E failing \in {{}, {<<1, 1>>}}, updateOk \in BOOLEAN :
          ProcessBatch(failing, updateOk, TRUE)
    \/ \E updateOk \in BOOLEAN : Finalize(updateOk, TRUE)

\* The handler, once invoked, runs to its end unless it waits for ever
SpecSplit == InitSplit /\ [][NextSplit]_vars /\ WF_vars(NextSplit)

InitItems == itemsIdle /\ tsIdle /\ rtlIdle /\ bulkIdle /\ updIdle /\ userIdle
    /\ initIdle
    /\ provIdle
    /\ missIdle
    /\ selIdle
    /\ pluralIdle
    /\ regIdle
    /\ statusIdle

NextItems ==
    \/ \E req \in ItemRequests, failing \in SUBSET {1, 2} : TranslateBatch(req, failing)
    \/ \E req \in ItemRequests, failing \in SUBSET {1, 2} :
          TranslateProfessional(req, failing)

SpecItems == InitItems /\ [][NextItems]_vars

\* ---- The cache filling up at its configured size ----
CACHE_MAX_SIZE == 1000                    \* CACHE_CONFIG.MAX_SIZE
MaxFreshKeys == 1101
freshKey(n) == "k" \o ToString(n)

\* Keys are first requested in the order k1, k2, ...: the next one follows the
\* key cached last
nextFresh ==
    IF Len(translationCache) = 0 THEN 1
    ELSE 1 + CHOOSE n \in 1..MaxFreshKeys :
                 freshKey(n) = translationCache[Len(translationCache)].ck[1]

InitEvict ==
    /\ config = [enabled |-> TRUE, maxSize |-> CACHE_MAX_SIZE]
    /\ browser = TRUE
    /\ language = DEFAULT_LANGUAGE
    /\ storedLanguage = Undefined
    /\ translationCache = <<>>
    /\ cleanupTimers = 1
    /\ lastChange = <<>>
    /\ firstCall = <<>>
    /\ callPair = <<>>
    /\ rtlIdle
    /\ bulkIdle
    /\ itemsIdle
    /\ updIdle
    /\ userIdle
    /\ initIdle
    /\ provIdle
    /\ missIdle
    /\ selIdle
    /\ pluralIdle
    /\ regIdle
    /\ statusIdle

NextEvict ==
    \/ /\ nextFresh <= MaxFreshKeys
       /\ Translate(freshKey(nextFresh),
                    [lng |-> Undefined, defaultValue |-> Undefined], FALSE, FALSE)
    \/ ClearCache

SpecEvict == InitEvict /\ [][NextEvict]_vars

InitUpd ==
    updIdle /\ tsIdle /\ rtlIdle /\ bulkIdle /\ itemsIdle /\ userIdle /\ initIdle
    /\ provIdle
    /\ missIdle
    /\ selIdle
    /\ pluralIdle
    /\ regIdle
    /\ statusIdle

NextUpd ==
    \E req \in UpdateRequests, setOk, addOk, markerOk \in BOOLEAN :
        UpdateTranslations(req, setOk, addOk, markerOk)

SpecUpd == InitUpd /\ [][NextUpd]_vars

InitUser ==
    userIdle /\ updIdle /\ tsIdle /\ rtlIdle /\ bulkIdle /\ itemsIdle /\ initIdle
    /\ provIdle
    /\ missIdle
    /\ selIdle
    /\ pluralIdle
    /\ regIdle
    /\ statusIdle

NextUser ==
    \/ \E req \in UpdateLanguageRequests, setOk \in BOOLEAN :
          UpdateUserLanguage(req, setOk)
    \/ \E req \in GetLanguageRequests : GetUserLanguageRead(req)
    \/ \E setOk \in BOOLEAN : GetUserLanguageReturn(setOk)

SpecUser == InitUser /\ [][NextUser]_vars

InitTS ==
    /\ config = [enabled |-> TRUE, maxSize |-> MaxSizeCfg]
    /\ browser = TRUE
    /\ language = DEFAULT_LANGUAGE
    /\ storedLanguage = Undefined
    /\ translationCache = <<>>
    /\ cleanupTimers = 1
    /\ lastChange = <<>>
    /\ firstCall = <<>>
    /\ callPair = <<>>
    /\ rtlIdle
    /\ bulkIdle
    /\ itemsIdle
    /\ updIdle
    /\ userIdle
    /\ initIdle
    /\ provIdle
    /\ missIdle
    /\ selIdle
    /\ pluralIdle
    /\ regIdle
    /\ statusIdle

NextTS ==
    \/ \E key \in Keys, options \in TranslationOptions, throws, watch \in BOOLEAN :
          Translate(key, options, throws, watch)
    \/ ClearCache
    \/ \E lang \in LanguageInputs, outcome \in {"ok", "runtimeFails", "storageFails"} :
          ChangeLanguage(lang, outcome)
    \/ Tick
    \/ CacheCleanup

SpecTS == InitTS /\ [][NextTS]_vars

InitLang ==
    /\ config = [enabled |-> TRUE, maxSize |-> MaxSizeCfg]
    /\ browser \in BOOLEAN
    /\ language = DEFAULT_LANGUAGE
    /\ storedLanguage = Undefined
    /\ translationCache = <<>>
    /\ cleanupTimers = 1
    /\ lastChange = <<>>
    /\ firstCall = <<>>
    /\ callPair = <<>>
    /\ rtlIdle
    /\ bulkIdle
    /\ itemsIdle
    /\ updIdle
    /\ userIdle
    /\ initIdle
    /\ provIdle
    /\ missIdle
    /\ selIdle
    /\ pluralIdle
    /\ regIdle
    /\ statusIdle

NextLang ==
    \/ \E key \in Keys, options \in TranslationOptions, throws \in BOOLEAN :
          Translate(key, options, throws, FALSE)
    \/ ClearCache
    \/ \E lang \in LanguageInputs, outcome \in {"ok", "runtimeFails", "storageFails"} :
          ChangeLanguage(lang, outcome)
    \/ Tick
    \/ CacheCleanup

SpecLang == InitLang /\ [][NextLang]_vars

C2_RejectsUnsupported ==
    (Len(lastChange) = 1 /\ lastChange[1].arg \notin SUPPORTED_LANGUAGES) =>
        /\ lastChange[1].error = changeFailedError(lastChange[1].arg)
        /\ ~lastChange[1].mutated

\* ------------------------------------------------------------------------
\* C5: transformCSSClasses mirrors every directional class
\* ------------------------------------------------------------------------
\* The mirror of a class name according to the swap table
mirrorOf(name) ==
    CASE name = <<"flex", "row">> -> <<"flex", "row", "reverse">>
      [] name = <<"flex", "row", "reverse">> -> <<"flex", "row">>
      [] Len(name) = 2 /\ name[1] \in {"text", "float"} /\ name[2] = "left"
            -> <<name[1], "right">>
      [] Len(name) = 2 /\ name[1] \in {"text", "float"} /\ name[2] = "right"
            -> <<name[1], "left">>
      [] Len(name) = 2 /\ name[1] \in {"ml", "pl", "left"} /\ name[2] \in Numbers
            -> <<(CASE name[1] = "ml" -> "mr" [] name[1] = "pl" -> "pr"
                    [] OTHER -> "right"), name[2]>>
      [] Len(name) = 2 /\ name[1] \in {"mr", "pr", "right"} /\ name[2] \in Numbers
            -> <<(CASE name[1] = "mr" -> "ml" [] name[1] = "pr" -> "pl"
                    [] OTHER -> "left"), name[2]>>
      [] name = <<"border", "l">> -> <<"border", "r">>
      [] name = <<"border", "r">> -> <<"border", "l">>
      [] Len(name) = 3 /\ name[1] = "border" /\ name[2] = "l" /\ name[3] \in Numbers
            -> <<"border", "r", name[3]>>
      [] Len(name) = 3 /\ name[1] = "border" /\ name[2] = "r" /\ name[3] \in Numbers
            -> <<"border", "l", name[3]>>
      [] OTHER -> name

\* C5: while the direction is rtl, transformCSSClasses with mirrorLayout and
\* adjustSpacing on replaces every directional class of its input by its mirror
\* and leaves every other class unchanged; while the direction is ltr it
\* returns its input unchanged.
C5_MirrorsEveryClass ==
    Len(lastTransform) = 1 =>
        LET c == lastTransform[1]
        IN  /\ (c.direction = "rtl" /\ c.options.mirrorLayout
                    /\ c.options.adjustSpacing) =>
                c.output = [k \in 1..Len(c.input) |-> mirrorOf(c.input[k])]
            /\ c.direction = "ltr" => c.output = c.input

\* ------------------------------------------------------------------------
\* C6: transformCSSClasses is an involution while the direction stays rtl
\* ------------------------------------------------------------------------
classSet(classes) == { classes[k] : k \in 1..Len(classes) }

\* C6: while the direction stays rtl, transformCSSClasses applied to the output
\* of a previous transformCSSClasses call yields a class set equal to the
\* original input's.
C6_Involution ==
    (Len(lastTransform) = 1 /\ Len(lastTransform[1].previous) = 1
        /\ lastTransform[1].direction = "rtl") =>
        classSet(lastTransform[1].output) = classSet(lastTransform[1].previous[1])

\* A margin class swapped and swapped back
C6_Witness ==
    /\ Len(lastTransform) = 1
    /\ lastTransform[1].direction = "rtl"
    /\ lastTransform[1].previous = << << <<"mr", "4">>, <<"text", "left">> >> >>
    /\ lastTransform[1].input = << <<"ml", "4">>, <<"text", "right">> >>
    /\ lastTransform[1].output = << <<"mr", "4">>, <<"text", "left">> >>

\* ------------------------------------------------------------------------
\* C3: counters and final status of a bulk-translation job
\* ------------------------------------------------------------------------
\* The invocation returned normally: its job document is finished
finished == invocation.pc = "done" /\ invocation.error = Undefined

totalCalls == invocation.request.content.items
                  * invocation.request.content.targetLanguages

\* C3 as stated: a finished job with N items and M languages in which exactly
\* one (item, language) call failed has failedItems = 1, completedItems =
\* N*M - 1 and status completed; in general the status is failed only when no
\* call succeeded and completed otherwise.
C3_AsStated ==
    finished =>
        LET doc == translationJobs[invocation.jobId][1]
        IN  /\ Cardinality(invocation.failedCalls) = 1 =>
                /\ doc.failedItems = 1
                /\ doc.completedItems = totalCalls - 1
                /\ doc.status = "completed"
            /\ doc.status = "failed" =>
                   Cardinality(invocation.failedCalls) = totalCalls
            /\ doc.status # "failed" => doc.status = "completed"

\* C3 amended: a finished job with N items and M languages in which exactly
\* one (item, language) call failed has failedItems = 1 and completedItems =
\* N*M - 1; its status is completed when N*M > 1 and failed when N*M = 1.  In
\* general the status of a finished job is failed exactly when no call
\* succeeded and completed otherwise.  (The job id is written by one
\* invocation at a time.)
C3_CountersAndStatus ==
    finished =>
        LET doc == translationJobs[invocation.jobId][1]
        IN  /\ Cardinality(invocation.failedCalls) = 1 =>
                /\ doc.failedItems = 1
                /\ doc.completedItems = totalCalls - 1
                /\ doc.status = IF totalCalls > 1 THEN "completed" ELSE "failed"
            /\ doc.status = "failed" <=>
                   Cardinality(invocation.failedCalls) = totalCalls
            /\ doc.status # "failed" => doc.status = "completed"

\* A job of two calls finished with one of them failed
C3_Witness ==
    /\ finished
    /\ totalCalls = 2
    /\ Cardinality(invocation.failedCalls) = 1
    /\ translationJobs[invocation.jobId][1].failedItems = 1
    /\ translationJobs[invocation.jobId][1].completedItems = 1
    /\ translationJobs[invocation.jobId][1].status = "completed"

\* ------------------------------------------------------------------------
\* C4: progress counters of a job id never decrease
\* ------------------------------------------------------------------------
\* C4: over the whole life of a caller-supplied job id, completedItems and
\* failedItems of its document never decrease from one observation to the
\* next.
C4_ProgressNeverDecreases ==
    [][Len(translationJobs[SuppliedJobId]) = 1 =>
          /\ Len(translationJobs'[SuppliedJobId]) = 1
          /\ translationJobs'[SuppliedJobId][1].completedItems
                 >= translationJobs[SuppliedJobId][1].completedItems
          /\ translationJobs'[SuppliedJobId][1].failedItems
                 >= translationJobs[SuppliedJobId][1].failedItems]_vars

\* ------------------------------------------------------------------------
\* C7: a rejected request writes nothing
\* ------------------------------------------------------------------------
\* C7: a request rejected with unauthenticated, permission-denied or
\* invalid-argument performs no write to the document store.
C7_RejectionWritesNothing ==
    [][(/\ invocation.pc \in {"idle", "done"}
        /\ invocation'.pc = "done"
        /\ invocation'.error \in {"unauthenticated", "permission-denied",
                                  "invalid-argument"})
          => translationJobs'[SuppliedJobId] = translationJobs[SuppliedJobId]]_vars

\* ------------------------------------------------------------------------
\* C8: completed and failed are terminal
\* ------------------------------------------------------------------------
\* C8: once the status of a job document is completed or failed, no later call
\* or step changes it.
C8_TerminalStatus ==
    [][(/\ Len(translationJobs[SuppliedJobId]) = 1
        /\ translationJobs[SuppliedJobId][1].status \in {"completed", "failed"})
          => /\ Len(translationJobs'[SuppliedJobId]) = 1
             /\ translationJobs'[SuppliedJobId][1].status
                    = translationJobs[SuppliedJobId][1].status]_vars

\* ------------------------------------------------------------------------
\* C9: a top-level failure marks the job failed
\* ------------------------------------------------------------------------
\* C9: when an invocation fails at the top level after its job document was
\* created, and the failure-marking write did not itself fail, the document
\* ends with status failed and the error recorded, for a supplied and for a
\* generated job id alike.
C9_FailureMarksJob ==
    (/\ invocation.pc = "done"
     /\ invocation.error = "internal"
     /\ invocation.docCreated
     /\ invocation.mark # "threw") =>
        /\ translationJobs[invocation.jobId][1].status = "failed"
        /\ translationJobs[invocation.jobId][1].error

\* ------------------------------------------------------------------------
\* C10: the failure of one item is contained
\* ------------------------------------------------------------------------
\* C10: in the multi-item handlers the failure of an item never fails the
\* request and never changes the result of a sibling item: the response has
\* one result slot per input item, in input order, and the slot of each failed
\* item records that item's error message.
C10_ItemFailureContained ==
    (Len(lastResponse) = 1 /\ lastResponse[1].unfailing.thrown = Undefined) =>
        LET c == lastResponse[1]
            items == lastResponse[1].request.items
            results == lastResponse[1].response.results
        IN  /\ c.response.thrown = Undefined
            /\ Len(results) = Len(items)
            /\ \A k \in 1..Len(items) :
                  /\ results[k].id = items[k]
                  /\ k \in c.failing => results[k].error = messageOf(items[k])
                  /\ k \notin c.failing => results[k] = c.unfailing.results[k]

\* ------------------------------------------------------------------------
\* C11: a cached translation expires after the TTL
\* ------------------------------------------------------------------------
\* C11: translate never returns a cached entry whose age exceeds the TTL: a
\* call served from the cache finds an entry no older than the TTL.
C11_NoStaleRead ==
    [][(Len(firstCall) = 0 /\ Len(firstCall') = 1 /\ firstCall'[1].how = "cache")
          => \A i \in 1..Len(translationCache) :
                translationCache[i].ck = firstCall'[1].ck
                    => translationCache[i].age <= TTLTicks]_vars

\* ------------------------------------------------------------------------
\* C12: only real translations are cached
\* ------------------------------------------------------------------------
\* The string the runtime holds for a key in a language (or its fallback)
resolvedResource(lng, key) ==
    IF getResource(lng, key) # NoResource THEN getResource(lng, key)
    ELSE getResource(FALLBACK_LANGUAGE, key)

\* C12: every cache entry holds a translation the runtime resolved for its
\* cache key; a call for an unresolved key returns its own defaultValue, or
\* the bare key when it has none, whatever earlier calls passed.
C12_OnlyRealTranslations ==
    [][/\ \A i \in 1..Len(translationCache') :
             /\ resolvedResource(translationCache'[i].ck[2],
                                 translationCache'[i].ck[1]) # NoResource
             /\ translationCache'[i].value
                    = resolvedResource(translationCache'[i].ck[2],
                                       translationCache'[i].ck[1])
       /\ (/\ Len(firstCall) = 0 /\ Len(firstCall') = 1
           /\ firstCall'[1].how # "threw"
           /\ resolvedResource(firstCall'[1].ck[2], firstCall'[1].key) = NoResource)
             => firstCall'[1].result
                    = IF firstCall'[1].options.defaultValue # Undefined
                      THEN firstCall'[1].options.defaultValue
                      ELSE firstCall'[1].key]_vars

\* ------------------------------------------------------------------------
\* C13: the cache never exceeds its max size and evicts the 100 oldest
\* ------------------------------------------------------------------------
\* C13: the number of cached entries never exceeds the configured max size,
\* and an insertion that would exceed it evicts the 100 oldest-inserted
\* entries and no other.
C13_BoundedCache ==
    [][/\ Len(translationCache') <= config.maxSize
       /\ (Len(translationCache) >= config.maxSize /\ Len(translationCache') > 0)
             => /\ Len(translationCache') = Len(translationCache) - 100 + 1
                /\ \A i \in 1..(Len(translationCache) - 100) :
                       translationCache'[i] = translationCache[i + 100]]_vars

\* The cache just after its first eviction: k1..k100 are gone, k1001 is in
C13_Witness ==
    /\ Len(translationCache) = CACHE_MAX_SIZE - 100 + 1
    /\ translationCache[1].ck[1] = freshKey(101)
    /\ translationCache[Len(translationCache)].ck[1] = freshKey(CACHE_MAX_SIZE + 1)

\* ------------------------------------------------------------------------
\* C14: the key set stored by updateTranslations
\* ------------------------------------------------------------------------
\* A provided key the handler accepts: a well-formed key with a non-blank value
validProvided(req, k) ==
    /\ req.translations[k] # Absent
    /\ isValidTranslationKey(k)
    /\ trim(req.translations[k]) # ""

\* C14: after a successful updateTranslations call the stored keys are, with
\* merge=true, the previously stored keys plus every valid provided key, the
\* provided values winning; with merge=false, exactly the valid provided keys,
\* each with its trimmed provided value, whether new, changed or unchanged.
C14_StoredKeySet ==
    [][(Len(lastUpdate') = 1 /\ lastUpdate'[1].thrown = Undefined
            /\ translationsDb'.version = translationsDb.version + 1) =>
          \A k \in TranslationKeys :
             translationsDb'.translations[k] =
                IF validProvided(lastUpdate'[1].request, k)
                THEN trim(lastUpdate'[1].request.translations[k])
                ELSE IF lastUpdate'[1].request.merge
                THEN translationsDb.translations[k]
                ELSE Absent]_vars

\* ------------------------------------------------------------------------
\* C15, C16: the stored language preference
\* ------------------------------------------------------------------------
\* C15: after updateUserLanguage(L, P) has succeeded, a getUserLanguage call
\* by that user made before the next update returns language L, isDefault
\* false, and each sub-preference P carries exactly as P has it.
C15_ReadsBackWhatWasWritten ==
    [][(/\ Len(userCall) = 1 /\ Len(userCall') = 0
        /\ userCall[1].request.uid = "u1"
        /\ Len(lastSelected) = 1 /\ userCall[1].selected = lastSelected
        /\ lastUserResponse'[1].thrown = Undefined)
          => /\ lastUserResponse'[1].language = lastSelected[1].language
             /\ lastUserResponse'[1].isDefault = FALSE
             /\ Len(lastSelected[1].preferences) = 1 =>
                  /\ Len(lastUserResponse'[1].preferences) = 1
                  /\ \A f \in WrittenPrefFields :
                        lastSelected[1].preferences[1][f] # Absent =>
                           lastUserResponse'[1].preferences[1][f] =
                              lastSelected[1].preferences[1][f]]_vars

\* C16: getUserLanguage writes a detected language only when the stored
\* document has no supported language, and what it writes is the detected
\* language tagged auto-detected; once a language tagged user-selected is
\* stored, no getUserLanguage call changes the stored language or its tag.
C16_DetectsOnlyWhenUnset ==
    [][(Len(userCall) = 1 /\ Len(userCall') = 0 /\ userDoc' # userDoc)
          => /\ ~(userDoc.exists /\ userDoc.language \in SUPPORTED_LANGUAGES)
             /\ userDoc.languageSource # "user-selected"
             /\ userDoc'.languageSource = "auto-detected"
             /\ <<userDoc'.language>> =
                   detectLanguageFromHeader(userCall[1].request.header)]_vars

\* ------------------------------------------------------------------------
\* C17: observers of the direction
\* ------------------------------------------------------------------------
\* C17: subscribe invokes the observer at once with the current direction;
\* every change of direction invokes each subscribed observer with the new
\* direction, which is the current direction at that moment; and an observer
\* whose unsubscribe function has been called is not invoked.
C17_ObserversFollowDirection ==
    [][\A o \in Observers :
          /\ (subscribed[o] # "subscribed" /\ subscribed'[o] = "subscribed")
                => invoked'[o] = currentDirection
          /\ (currentDirection' # currentDirection /\ subscribed[o] = "subscribed")
                => invoked'[o] = currentDirection'
          /\ invoked'[o] # NotInvoked
                => /\ subscribed'[o] = "subscribed"
                   /\ invoked'[o] = currentDirection']_vars

\* A change to rtl reached the two subscribed observers and not the one
\* that had unsubscribed
C17_Witness ==
    /\ currentDirection = "rtl"
    /\ subscribed = [o \in Observers |->
                       IF o = "o1" THEN "unsubscribed" ELSE "subscribed"]
    /\ invoked = [o \in Observers |-> IF o = "o1" THEN NotInvoked ELSE "rtl"]

\* ------------------------------------------------------------------------
\* C18: class generators
\* ------------------------------------------------------------------------
\* C18: called with flag true a class generator returns the override classes
\* if they were supplied and otherwise the mirrored base classes, whatever the
\* current direction; with flag false it returns the base classes; without a
\* flag it behaves as with flag true exactly when the direction is rtl.
C18_GeneratorFollowsFlag ==
    Len(lastGenerated) = 1 =>
        LET g == lastGenerated[1]
            isRTL == IF g.flag = "omitted" THEN g.direction = "rtl"
                     ELSE g.flag = "true"
        IN  g.output =
               IF ~isRTL THEN g.base
               ELSE IF g.rtl # <<>> THEN g.rtl
               ELSE [k \in 1..Len(g.base) |-> mirrorOf(g.base[k])]

C20_InitializedOnce ==
    /\ runtimeWired <= 1
    /\ cleanupTimers <= 1

\* ------------------------------------------------------------------------
\* C21: what I18nProvider renders
\* ------------------------------------------------------------------------
\* C21: a mounted I18nProvider whose initialisation has failed renders the
\* error panel; otherwise, while it is loading or not initialised, it renders
\* the fallback.
C21_FallbackThenErrorPanel ==
    provider.mounted =>
        IF provider.error /\ ~provider.isInitialized
        THEN render(provider) = "error panel"
        ELSE (provider.isLoading \/ ~provider.isInitialized)
                => render(provider) = "fallback"

\* ------------------------------------------------------------------------
\* C22: the table of missing translations
\* ------------------------------------------------------------------------
\* C22: the miss table holds exactly one record for each distinct (locale,
\* namespace, key) triple reported since the last clear, and totalMisses is
\* the number of those triples.
C22_OneRecordPerTriple ==
    /\ totalMisses = Cardinality(reportedMisses)
    /\ \A t \in reportedMisses :
          \E m \in translationMisses :
             <<m.locale, m.namespace, m.key>> = t

\* ------------------------------------------------------------------------
\* C23: keyboard navigation of the LanguageSelector dropdown
\* ------------------------------------------------------------------------
\* C23 as stated, its first part: with n selectable languages the focused
\* index is within -1..n-1 after every event.
C23_AsStated ==
    selector.focusedIndex \in
        -1..(Len(selectorProps.availableLanguages) - 1)

\* C23: with n >= 1 selectable languages the focused index stays within
\* -1..n-1; on an open list ArrowDown on the last option focuses the first,
\* ArrowUp on the first focuses the last, Home and End focus the first and the
\* last; Escape leaves the list closed; and while the selector is disabled no
\* key changes the open state, the focused index or the language.
C23_KeyboardNavigation ==
    LET n == Len(selectorProps.availableLanguages)
    IN  n >= 1 =>
          /\ selector.focusedIndex \in -1..(n - 1)
          /\ (Len(selectorEvent) = 1 /\ selectorEvent[1].kind = "key") =>
                LET e == selectorEvent[1]
                    active == ~selectorProps.disabled /\ e.wasOpen
                IN  /\ (active /\ e.key = "ArrowDown" /\ e.fromIndex = n - 1)
                          => selector.focusedIndex = 0
                    /\ (active /\ e.key = "ArrowUp" /\ e.fromIndex = 0)
                          => selector.focusedIndex = n - 1
                    /\ (active /\ e.key = "Home") => selector.focusedIndex = 0
                    /\ (active /\ e.key = "End") => selector.focusedIndex = n - 1
                    /\ (~selectorProps.disabled /\ e.key = "Escape")
                          => ~selector.isOpen
                    /\ selectorProps.disabled
                          => /\ selector.isOpen = e.wasOpen
                             /\ selector.focusedIndex = e.fromIndex
                             /\ language = e.fromLanguage

\* ArrowDown on the last of three options has focused the first
C23_Witness ==
    /\ Len(selectorProps.availableLanguages) = 3
    /\ Len(selectorEvent) = 1
    /\ selectorEvent[1].key = "ArrowDown"
    /\ selectorEvent[1].wasOpen
    /\ selectorEvent[1].fromIndex = 2
    /\ selector.focusedIndex = 0

\* ------------------------------------------------------------------------
\* C24: plural categories
\* ------------------------------------------------------------------------
\* The category prescribed for a language and a count
prescribed(lang, count) ==
    LET d == count % 10
        dd == count % 100
    IN  CASE lang \in {"en", "es", "pt", "de", "nl"} ->
                IF count = 1 THEN "one" ELSE "other"
          [] lang = "fr" ->
                IF count \in {0, 1} THEN "one"
                ELSE IF count >= 1000000 THEN "many" ELSE "other"
          [] lang \in {"ja", "zh"} -> "other"
          [] lang = "ar" ->
                CASE count = 0 -> "zero" [] count = 1 -> "one"
                  [] count = 2 -> "two" [] count \in 3..10 -> "few"
                  [] count \in 11..99 -> "many" [] OTHER -> "other"
          [] lang = "ru" ->
                CASE d = 1 /\ dd # 11 -> "one"
                  [] d \in 2..4 /\ dd \notin 12..14 -> "few"
                  [] ~(d = 1 /\ dd # 11) /\ ~(d \in 2..4 /\ dd \notin 12..14)
                       /\ (d = 0 \/ d \in 5..9 \/ dd \in 11..14) -> "many"
                  [] OTHER -> "other"

\* C24: for every supported language and every count, the language's rule
\* returns the prescribed category.
C24_PluralCategories ==
    Len(pluralCall) = 1 =>
        pluralCall[1].category =
            prescribed(pluralCall[1].language, pluralCall[1].count)

\* The Russian rule was applied to a count in the teens of a later hundred
C24_Witness ==
    /\ Len(pluralCall) = 1
    /\ pluralCall[1].language = "ru"
    /\ pluralCall[1].count = 112
    /\ pluralCall[1].category = "many"

\* ------------------------------------------------------------------------
\* C25: order of the localized recommendations
\* ------------------------------------------------------------------------
\* C25: the recommendations of a result are in non-decreasing priority
\* order, and every legal recommendation has a strictly lower priority
\* number than, and stands before, every format recommendation.
C25_LegalOutranksFormat ==
    Len(lastOptimization) = 1 =>
        LET recs == lastOptimization[1].localizedRecommendations
        IN  /\ \A i, j \in 1..Len(recs) :
                  i < j => recs[i].priority <= recs[j].priority
            /\ \A i, j \in 1..Len(recs) :
                  recs[i].category = "legal" /\ recs[j].category = "format"
                      => recs[i].priority < recs[j].priority /\ i < j

\* ------------------------------------------------------------------------
\* C26: overlapping updateTranslations calls
\* ------------------------------------------------------------------------
\* The stored keys, values and version after one call alone on a document
applied(doc, req) ==
    [translations |-> finalTranslations(doc.translations, req),
     version |-> doc.version + 1]

\* C26: whatever the interleaving, the stored keys, values and version are
\* those of the completed calls applied one after another in some order.
C26_Serializable ==
    LET done == {c \in Calls : updateCalls[c].stage = "done"}
        start == [translations |-> noTranslations, version |-> 0]
        stored == [translations |-> translationsDb.translations,
                   version |-> translationsDb.version]
        req(c) == updateCalls[c].request[1]
    IN  /\ (\E c \in Calls : done = {c}) =>
              \E c \in done : stored = applied(start, req(c))
        /\ done = Calls =>
              \E c1, c2 \in Calls :
                  /\ c1 # c2
                  /\ stored = applied(applied(start, req(c1)), req(c2))

\* ------------------------------------------------------------------------
\* C27: a job belongs to its owner
\* ------------------------------------------------------------------------
\* C27: a job document is modified only by an invocation of the user it
\* records as its owner, and its state is returned only to that user or to
\* an admin.
C27_JobIsolation ==
    [][/\ (/\ Len(translationJobs[SuppliedJobId]) = 1
           /\ translationJobs'[SuppliedJobId] # translationJobs[SuppliedJobId])
              => invocation'.request.uid = translationJobs[SuppliedJobId][1].userId
       /\ (Len(statusCall') = 1 /\ statusCall'[1].response.thrown = Undefined)
              => \/ statusCall'[1].request.uid = statusCall'[1].owner
                 \/ statusCall'[1].request.admin]_vars

\* ------------------------------------------------------------------------
\* C28: bulkTranslation terminates
\* ------------------------------------------------------------------------
\* C28: an invocation whose request passed the checks leaves the loop that
\* splits the content into batches and comes to its end.
C28_Terminates ==
    (invocation.pc = "split") ~> (invocation.pc = "done")

\* ------------------------------------------------------------------------
\* C29: a completed job has results to return
\* ------------------------------------------------------------------------
\* C29: whenever the owner asks for the results of a job and is answered
\* that it is completed, the answer carries the job's results.
C29_CompletedHasResults ==
    (/\ Len(statusCall) = 1
     /\ statusCall[1].request.includeResults
     /\ statusCall[1].request.uid = statusCall[1].owner
     /\ statusCall[1].response.thrown = Undefined
     /\ statusCall[1].response.status = "completed")
        => statusCall[1].response.results

\* ------------------------------------------------------------------------
\* C30: changeLanguage is all-or-nothing
\* ------------------------------------------------------------------------
\* C30: whenever changeLanguage throws, the current language, the stored
\* language preference and the translation cache are as before the call.
C30_AllOrNothing ==
    (Len(lastChange) = 1 /\ lastChange[1].error # NoError)
        => ~lastChange[1].mutated
====
